---- MODULE Spec2Model ----
(***************************************************************************)
(* Model of the star-system generator of planetgen                         *)
(* (src/generators/orbit.js) and of the callers in src/script.js.          *)
(*                                                                         *)
(* Numbers.  A 32-bit word is a pair <<hi, lo>> of 16-bit halves, so that  *)
(* the generator state wraps modulo 2^32 exactly as `| 0` and Math.imul    *)
(* do.  Every real quantity (AU, solar radii, Gyr, degrees, luminosity,    *)
(* natural logarithms) is a fixed-point integer in thousandths: the model  *)
(* value of a real x is floor(1000 * x).                                   *)
(***************************************************************************)
EXTENDS Integers, Naturals, Sequences, FiniteSets, TLC

\* ---------------------------------------------------------------- bounds
\* Seeds offered to set_random_seed / generateOrbit(seed): 0..MaxSeed.
MaxSeed == 2
\* Resolution of the unseeded engine source: Math.random() returns k/MathDen.
MathDen == 3
\* Calls that continue the shared stream without reseeding, per reseed.
MaxUnseeded == 1
\* Seeds of the single-call specification: 0..MaxFnSeed.
MaxFnSeed == 24
\* Luminosities 1..MaxLum (thousandths) given to calculateHabitableZone.
MaxLum == 60
\* Values drawn from random() after a reseed in the single-call specification.
MaxDraws == 6
\* Start seeds of the page specification:
\* FirstPageSeed..(FirstPageSeed + MaxPageSeed).
FirstPageSeed == 6
MaxPageSeed == 0
\* Systems the page generates in one behaviour of the page specification.
MaxPopulate == 1
\* Calls of updateScene that wait at an await at the same time.
MaxPending == 2

\* --------------------------------------------------------- fixed point
Milli == 10 * 100
H16 == 256 * 256

\* floor(x * b / c) without leaving 32 bits, for the operand sizes used here
MulDiv(x, b, c) == (x \div c) * b + (((x % c) * b) \div c)

RECURSIVE SqrtSearch(_, _, _)
SqrtSearch(x, lo, hi) ==
    IF lo >= hi THEN lo
    ELSE LET mid == (lo + hi + 1) \div 2
         IN  IF mid * mid <= x THEN SqrtSearch(x, mid, hi)
             ELSE SqrtSearch(x, lo, mid - 1)

\* floor(sqrt(x)) for 0 <= x < 2^31
ISqrt(x) == SqrtSearch(x, 0, 46340)

\* Math.sqrt(l / c) for l in thousandths and the constant c in hundredths
SqrtOfQuotient(l, c) == ISqrt(MulDiv(l, 100000, c))

\* e^k for the integer parts met by the orbit layout, as num/den
ExpIntNum(k) == CASE k = -3 -> 498  [] k = -2 -> 1353 [] k = -1 -> 3679
                  [] k = 0  -> 1    [] k = 1  -> 2718 [] k = 2  -> 7389
                  [] k = 3  -> 2009 [] k = 4  -> 5460 [] OTHER  -> 1484
ExpIntDen(k) == CASE k = -3 -> 10000 [] k = -2 -> 10000 [] k = -1 -> 10000
                  [] k = 0  -> 1     [] k = 1  -> 1000  [] k = 2  -> 1000
                  [] k = 3  -> 100   [] k = 4  -> 100   [] OTHER  -> 10

RECURSIVE ExpSeries(_, _, _, _)
\* sum of the Taylor terms term, term*f/n, ... of e^(f/1000) in millionths
ExpSeries(f, n, term, acc) ==
    IF term = 0 \/ n > 14 THEN acc
    ELSE LET next == (term * f) \div (Milli * n)
         IN  ExpSeries(f, n + 1, next, acc + next)

\* Math.exp: x and the result in thousandths, -3000 <= x < 6000
MathExp(x) ==
    LET k == x \div Milli
        f == x % Milli
        ef == ExpSeries(f, 1, 1000000, 1000000) \div 10
    IN  (ef * ExpIntNum(k)) \div (ExpIntDen(k) * 100)

RECURSIVE LogSearch(_, _, _)
LogSearch(y, lo, hi) ==
    IF lo >= hi THEN lo
    ELSE LET mid == (lo + hi) \div 2
         IN  IF MathExp(mid) >= y THEN LogSearch(y, lo, mid)
             ELSE LogSearch(y, mid + 1, hi)

\* Math.log: the least x with exp(x) >= y, in thousandths, 50 <= y <= 400000
MathLog(y) == LogSearch(y, -3000, 5999)

\* ------------------------------------------------------- 32-bit words
RECURSIVE Xor16(_, _, _)
Xor16(x, y, n) ==
    IF n = 0 THEN 0
    ELSE ((x + y) % 2) + 2 * Xor16(x \div 2, y \div 2, n - 1)

Xor32(x, y) == << Xor16(x[1], y[1], 16), Xor16(x[2], y[2], 16) >>

\* x >>> 16 and x >>> 15
Shr16(x) == << 0, x[1] >>
Shr15(x) == << x[1] \div 32768, (x[1] % 32768) * 2 + (x[2] \div 32768) >>

\* (x + y) | 0
\* a variant that keeps the carry out of the high half
Add32_Unwrapped(x, y) ==
    LET lo == x[2] + y[2]
    IN  << x[1] + y[1] + (lo \div H16), lo % H16 >>

Add32(x, y) ==
    LET lo == x[2] + y[2]
    IN  << (x[1] + y[1] + (lo \div H16)) % H16, lo % H16 >>

\* Math.imul(x, y): the low 32 bits of the product, column by column in bytes
Imul32(x, y) ==
    LET x0 == x[2] % 256  x1 == x[2] \div 256
        x2 == x[1] % 256  x3 == x[1] \div 256
        y0 == y[2] % 256  y1 == y[2] \div 256
        y2 == y[1] % 256  y3 == y[1] \div 256
        c0 == x0 * y0
        c1 == x0 * y1 + x1 * y0 + (c0 \div 256)
        c2 == x0 * y2 + x1 * y1 + x2 * y0 + (c1 \div 256)
        c3 == x0 * y3 + x1 * y2 + x2 * y1 + x3 * y0 + (c2 \div 256)
    IN  << (c3 % 256) * 256 + (c2 % 256), (c1 % 256) * 256 + (c0 % 256) >>

\* seed | 0 for an integer seed: its low 32 bits as two halves
ToInt32(seed) == << (seed \div H16) % H16, seed % H16 >>

\* floor(t / 2^32 * k) for a word t and an integer 0 < k < 2^15
FloorScale(t, k) == (t[1] * k + (t[2] * k) \div H16) \div H16

\* floor(t / 2^32 * k) for a word t and an integer 0 <= k < 2^31 / 2^8
FloorScaleWide(t, k) ==
    LET kh == k \div H16
        k1 == (k % H16) \div 256
        k0 == k % 256
        lowPart == t[2] * kh + (t[2] * k1 + (t[2] * k0) \div 256) \div 256
    IN  t[1] * kh + (t[1] * k1 + (t[1] * k0 + lowPart) \div 256) \div 256

\* ---------------------------------------------------- the random source
Golden == << 40503, 31161 >>   \* 0x9e3779b9
MixA   == << 8688, 43693 >>    \* 0x21f0aaad
MixB   == << 29530, 11671 >>   \* 0x735a2d97

\* var t = a ^ a >>> 16; t = Math.imul(t, 0x21f0aaad)
Mix1(a) == Imul32(Xor32(a, Shr16(a)), MixA)
\* t = t ^ t >>> 15; t = Math.imul(t, 0x735a2d97)
Mix2(t) == Imul32(Xor32(t, Shr15(t)), MixB)
\* (t = t ^ t >>> 15) >>> 0
Mix3(t) == Xor32(t, Shr15(t))

\* the value returned for the closure state a, as the word t of t / 4294967296
SplitmixReturn(a) == [a |-> a, t |-> Mix3(Mix2(Mix1(a)))]

\* One call of the closure returned by splitmix32(a): the new closure state
\* and the returned word.
splitmix32(a) == SplitmixReturn(Add32(a, Golden))

\* r * (max - min) + min for a drawn word r.t, in thousandths
ScaleValue(r, min, max) ==
    [a |-> r.a, v |-> FloorScaleWide(r.t, max - min) + min]

\* Math.floor(r * (max - min + 1)) + min for a drawn word r.t
\* a variant that leaves max out: Math.floor(random() * (max - min)) + min
ScaleInt_Exclusive(r, min, max) ==
    [a |-> r.a, v |-> FloorScale(r.t, max - min) + min]

ScaleInt(r, min, max) ==
    [a |-> r.a, v |-> FloorScale(r.t, max - min + 1) + min]

getRandomValue(a, min, max) == ScaleValue(splitmix32(a), min, max)

getRandomAge(a, min, max) == ScaleValue(splitmix32(a), min, max)

getRandomInt(a, min, max) == ScaleInt(splitmix32(a), min, max)

\* getRandomInt(0, 2^32 + over): with random() = t / 2^32 the value is
\* floor(t * (2^32 + over + 1) / 2^32) = t + floor(t * (over + 1) / 2^32),
\* here as q * 2^32 + the word w
WideSum(t, f) ==
    [q |-> (t[1] + (t[2] + f) \div H16) \div H16,
     w |-> << (t[1] + (t[2] + f) \div H16) % H16, (t[2] + f) % H16 >>]

ScaleIntWide(r, over) ==
    [a |-> r.a, v |-> WideSum(r.t, FloorScale(r.t, over + 1))]

getRandomIntWide(a, over) == ScaleIntWide(splitmix32(a), over)

\* ------------------------------------------------ the unseeded source
\* Math.random(): the engine's own generator.  Its hidden state m stands for
\* the value m / MathDen returned by the next call.
MathRandom(m) == [m |-> (m + 1) % MathDen, k |-> m]

\* ------------------------------------------------------------ the star
starTypes == << "M", "K", "G", "F", "A", "B", "O" >>

generateStarAge(type, a) ==
    CASE type = "M" -> getRandomAge(a, 1000, 5000000)
      [] type = "K" -> getRandomAge(a, 1000, 30000)
      [] type = "G" -> getRandomAge(a, 1000, 10000)
      [] type = "F" -> getRandomAge(a, 1000, 4000)
      [] type = "A" -> getRandomAge(a, 100, 3000)
      [] type = "B" -> getRandomAge(a, 10, 500)
      [] type = "O" -> getRandomAge(a, 1, 100)
      [] OTHER      -> [a |-> a, v |-> 0]

\* the size draw comes first, the mass draw second
\* a variant that destructures the pair the wrong way round
MassAfterSize_Swapped(size, mass) ==
    [a |-> mass.a, size |-> mass.v, mass |-> size.v]

MassAfterSize(size, mass) == [a |-> mass.a, size |-> size.v, mass |-> mass.v]
MassDraw(size, mmin, mmax) ==
    MassAfterSize(size, getRandomValue(size.a, mmin, mmax))
SizeAndMass(a, smin, smax, mmin, mmax) ==
    MassDraw(getRandomValue(a, smin, smax), mmin, mmax)

\* a variant that draws the size and mass of every class from the bands
\* of class G
generateStarSizeAndMass_SunLike(type, age, a) ==
    SizeAndMass(a, 960, 1150, 800, 1040)

generateStarSizeAndMass(type, age, a) ==
    CASE type = "M" -> SizeAndMass(a, 100, 700, 80, 450)
      [] type = "K" -> SizeAndMass(a, 700, 960, 450, 800)
      [] type = "G" -> SizeAndMass(a, 960, 1150, 800, 1040)
      [] type = "F" -> SizeAndMass(a, 1150, 1400, 1040, 1400)
      [] type = "A" -> SizeAndMass(a, 1400, 1800, 1400, 2100)
      [] type = "B" -> SizeAndMass(a, 1800, 6600, 2100, 16000)
      [] type = "O" -> SizeAndMass(a, 6600, 20000, 16000, 90000)
      [] OTHER      -> [a |-> a, size |-> 0, mass |-> 0]

\* a variant that forgets the class multiplier
generateStarLuminosity_Flat(type, size) == size

generateStarLuminosity(type, size) ==
    CASE type = "M" -> (size * 8) \div 100
      [] type = "K" -> (size * 6) \div 10
      [] type = "G" -> size
      [] type = "F" -> (size * 15) \div 10
      [] type = "A" -> size * 5
      [] type = "B" -> size * 25
      [] type = "O" -> size * 50
      [] OTHER      -> 0

\* lines 47-55 of generateParentStar: the luminosity and the returned record
StarRecord(type, age, sm) ==
    [a |-> sm.a,
     star |-> [type |-> type, age |-> age, size |-> sm.size, mass |-> sm.mass,
               luminosity |-> generateStarLuminosity(type, sm.size)]]

\* line 46: const { size, mass } = generateStarSizeAndMass(type, age)
StarOfAge(type, age) ==
    StarRecord(type, age.v, generateStarSizeAndMass(type, age.v, age.a))

\* line 45: const age = generateStarAge(type)
StarOfType(type, a) == StarOfAge(type, generateStarAge(type, a))

\* line 43: starTypes[Math.floor(random() * starTypes.length)]
StarOfDraw(r) == StarOfType(starTypes[FloorScale(r.t, Len(starTypes)) + 1], r.a)

generateParentStar(a) == StarOfDraw(splitmix32(a))

\* a variant with the two divisors exchanged
calculateHabitableZone_Swapped(luminosity) ==
    [innerBoundary |-> SqrtOfQuotient(luminosity, 53),
     outerBoundary |-> SqrtOfQuotient(luminosity, 110)]

calculateHabitableZone(luminosity) ==
    [innerBoundary |-> SqrtOfQuotient(luminosity, 110),
     outerBoundary |-> SqrtOfQuotient(luminosity, 53)]

isInHabitableZone(orbitRadius, habitableZone) ==
    /\ orbitRadius >= habitableZone.innerBoundary
    /\ orbitRadius <= habitableZone.outerBoundary

\* --------------------------------------------------------- the planets
Max(x, y) == IF x >= y THEN x ELSE y

\* a variant that spreads the slots over totalPlanets - 1 steps, the last
\* slot landing on maxOrbit
getRandomOrbitRadius_Inclusive(parentStar, planetIndex, totalPlanets) ==
    MathExp(MathLog(200)
            + ((MathLog(Max(50000,
                            SqrtOfQuotient(parentStar.luminosity, 53) + 20000))
                - MathLog(200)) \div (totalPlanets - 1)) * planetIndex)

\* a variant that spaces the slots downwards from minOrbit
getRandomOrbitRadius_Descending(parentStar, planetIndex, totalPlanets) ==
    LET luminosity == parentStar.luminosity
        outerHabitable == SqrtOfQuotient(luminosity, 53)
        minOrbit == 200
        maxOrbit == Max(50000, outerHabitable + 20000)
        spacingFactor == (MathLog(minOrbit) - MathLog(maxOrbit)) \div totalPlanets
    IN  MathExp(MathLog(minOrbit) + spacingFactor * planetIndex)

getRandomOrbitRadius(parentStar, planetIndex, totalPlanets) ==
    LET luminosity == parentStar.luminosity
        outerHabitable == SqrtOfQuotient(luminosity, 53)
        minOrbit == 200
        maxOrbit == Max(50000, outerHabitable + 20000)
        spacingFactor == (MathLog(maxOrbit) - MathLog(minOrbit)) \div totalPlanets
    IN  MathExp(MathLog(minOrbit) + spacingFactor * planetIndex)

\* a variant that tests the Ice Giant band before the Gas Giant band
PlanetTypeBranch_IceFirst(parentStar, orbitRadius) ==
    LET luminosity == parentStar.luminosity
        innerHabitable == SqrtOfQuotient(luminosity, 110)
        outerHabitable == SqrtOfQuotient(luminosity, 53)
    IN  IF orbitRadius < innerHabitable THEN 1
        ELSE IF orbitRadius >= innerHabitable /\ orbitRadius <= outerHabitable THEN 2
        ELSE IF orbitRadius >= outerHabitable + 5000 /\ orbitRadius < 30000 THEN 4
        ELSE IF orbitRadius > outerHabitable /\ orbitRadius < outerHabitable + 15000 THEN 3
        ELSE 5

\* a variant whose habitable band reaches 5 AU past the outer boundary
PlanetTypeBranch_WideBand(parentStar, orbitRadius) ==
    LET luminosity == parentStar.luminosity
        innerHabitable == SqrtOfQuotient(luminosity, 110)
        outerHabitable == SqrtOfQuotient(luminosity, 53)
    IN  IF orbitRadius < innerHabitable THEN 1
        ELSE IF orbitRadius >= innerHabitable /\ orbitRadius <= outerHabitable + 5000 THEN 2
        ELSE IF orbitRadius > outerHabitable /\ orbitRadius < outerHabitable + 15000 THEN 3
        ELSE IF orbitRadius >= outerHabitable + 5000 /\ orbitRadius < 30000 THEN 4
        ELSE 5

\* the branch taken by determinePlanetType, 1..5 in source order
PlanetTypeBranch(parentStar, orbitRadius) ==
    LET luminosity == parentStar.luminosity
        innerHabitable == SqrtOfQuotient(luminosity, 110)
        outerHabitable == SqrtOfQuotient(luminosity, 53)
    IN  IF orbitRadius < innerHabitable THEN 1
        ELSE IF orbitRadius >= innerHabitable /\ orbitRadius <= outerHabitable THEN 2
        ELSE IF orbitRadius > outerHabitable /\ orbitRadius < outerHabitable + 15000 THEN 3
        ELSE IF orbitRadius >= outerHabitable + 5000 /\ orbitRadius < 30000 THEN 4
        ELSE 5

\* a variant that also flips the coin beyond the zone
determinePlanetType_CoinOutside(parentStar, orbitRadius, m) ==
    LET branch == PlanetTypeBranch(parentStar, orbitRadius)
        coin == MathRandom(m)
    IN  CASE branch = 1 -> [m |-> m, v |-> "Lava Planet"]
          [] branch = 2 -> [m |-> coin.m,
                            v |-> IF 2 * coin.k > MathDen THEN "Terrestrial"
                                  ELSE "Ocean World"]
          [] branch = 3 -> [m |-> coin.m,
                            v |-> IF 2 * coin.k > MathDen THEN "Gas Giant"
                                  ELSE "Ice Giant"]
          [] branch = 4 -> [m |-> m, v |-> "Ice Giant"]
          [] OTHER      -> [m |-> m, v |-> "Dwarf Planet"]

determinePlanetType(parentStar, orbitRadius, m) ==
    LET branch == PlanetTypeBranch(parentStar, orbitRadius)
        coin == MathRandom(m)
    IN  CASE branch = 1 -> [m |-> m, v |-> "Lava Planet"]
          [] branch = 2 -> [m |-> coin.m,
                            v |-> IF 2 * coin.k > MathDen THEN "Terrestrial"
                                  ELSE "Ocean World"]
          [] branch = 3 -> [m |-> m, v |-> "Gas Giant"]
          [] branch = 4 -> [m |-> m, v |-> "Ice Giant"]
          [] OTHER      -> [m |-> m, v |-> "Dwarf Planet"]

getPlanetSize(planetType, a) ==
    CASE planetType = "Lava Planet"  -> getRandomValue(a, 300, 1000)
      [] planetType = "Terrestrial"  -> getRandomValue(a, 500, 1500)
      [] planetType = "Ocean World"  -> getRandomValue(a, 800, 2000)
      [] planetType = "Gas Giant"    -> getRandomValue(a, 6000, 15000)
      [] planetType = "Ice Giant"    -> getRandomValue(a, 5000, 14000)
      [] planetType = "Dwarf Planet" -> getRandomValue(a, 100, 300)
      [] OTHER                       -> [a |-> a, v |-> 1000]

atmospheres(family) ==
    CASE family = "trace" -> << "trace" >>
      [] family = "carbon_dioxide" ->
            << "carbon_dioxide_type_I", "carbon_dioxide_type_II" >>
      [] family = "hydrogen_helium" ->
            << "hydrogen_helium_type_I", "hydrogen_helium_type_II",
               "hydrogen_helium_type_III" >>
      [] family = "ice" -> << "ice_type_I", "ice_type_II" >>
      [] family = "nitrogen" ->
            << "nitrogen_type_I", "nitrogen_type_II", "nitrogen_type_III" >>
      [] family = "carbon" -> << "carbon_type_I" >>
      [] family = "ammonia" -> << "ammonia_type_I" >>

\* types[Math.floor(Math.random() * types.length)]
randomAtmosphere(types, m) ==
    LET r == MathRandom(m)
    IN  [m |-> r.m, v |-> types[(r.k * Len(types)) \div MathDen + 1]]

\* a variant that draws from the list of a Terrestrial planet in the zone
\* whatever the type and the orbit
getPlanetAtmosphere_ZoneBlind(planetType, orbitRadius, habitableZone, m) ==
    randomAtmosphere(atmospheres("carbon_dioxide") \o atmospheres("nitrogen"),
                     m)

getPlanetAtmosphere(planetType, orbitRadius, habitableZone, m) ==
    CASE planetType = "Terrestrial" ->
            IF isInHabitableZone(orbitRadius, habitableZone)
            THEN randomAtmosphere(atmospheres("carbon_dioxide")
                                  \o atmospheres("nitrogen"), m)
            ELSE randomAtmosphere(atmospheres("carbon_dioxide"), m)
      [] planetType = "Ocean World" ->
            randomAtmosphere(atmospheres("carbon") \o atmospheres("ammonia")
                             \o atmospheres("nitrogen"), m)
      [] planetType = "Gas Giant" ->
            randomAtmosphere(atmospheres("hydrogen_helium")
                             \o << atmospheres("carbon")[1] >>, m)
      [] planetType = "Ice Giant" ->
            randomAtmosphere(atmospheres("ice")
                             \o << atmospheres("ammonia")[1] >>, m)
      [] planetType = "Lava Planet" ->
            randomAtmosphere(atmospheres("carbon_dioxide"), m)
      [] planetType = "Dwarf Planet" ->
            randomAtmosphere(atmospheres("trace")
                             \o atmospheres("carbon_dioxide"), m)
      [] OTHER -> [m |-> m, v |-> "unknown"]

\* a variant with the range of Terrestrial for every type
getPlanetMoons_OneRange(planetType, a) == getRandomInt(a, 0, 3)

getPlanetMoons(planetType, a) ==
    CASE planetType = "Terrestrial"  -> getRandomInt(a, 0, 3)
      [] planetType = "Ocean World"  -> getRandomInt(a, 0, 2)
      [] planetType = "Gas Giant"    -> getRandomInt(a, 1, 80)
      [] planetType = "Ice Giant"    -> getRandomInt(a, 1, 50)
      [] planetType = "Lava Planet"  -> getRandomInt(a, 0, 2)
      [] planetType = "Dwarf Planet" -> getRandomInt(a, 0, 5)
      [] OTHER                       -> [a |-> a, v |-> 0]

\* the names of the properties an object literal inherits from
\* Object.prototype: tiltRanges[name] is then a function or an object,
\* which || takes for a range
ObjectPrototypeNames ==
    {"constructor", "hasOwnProperty", "isPrototypeOf", "propertyIsEnumerable",
     "toLocaleString", "toString", "valueOf", "__proto__",
     "__defineGetter__", "__defineSetter__", "__lookupGetter__",
     "__lookupSetter__"}

\* the result of arithmetic on undefined: a value that is no number and
\* fails every comparison with the bounds of a range
NaN == 0 - 1

\* the keys of tiltRanges are not the planet type names: a type that is
\* not a key takes tiltRanges['Terrestrial'], unless it names an inherited
\* property, whose min and max are undefined
tiltRanges(planetType) ==
    CASE planetType \in ObjectPrototypeNames -> [min |-> NaN, max |-> NaN]
      [] planetType = "Dwarf"       -> [min |-> 0, max |-> 30]
      [] planetType = "Terrestrial" -> [min |-> 0, max |-> 25]
      [] planetType = "Ocean"       -> [min |-> 10, max |-> 30]
      [] planetType = "Lava"        -> [min |-> 0, max |-> 40]
      [] planetType = "Gas Giant"   -> [min |-> 15, max |-> 90]
      [] planetType = "Ice Giant"   -> [min |-> 10, max |-> 90]
      [] OTHER                      -> [min |-> 0, max |-> 25]

\* Math.random() * (range.max - range.min) + range.min, in thousandths
getAxialTilt(planetType, m) ==
    LET range == tiltRanges(planetType)
        r == MathRandom(m)
    IN  [m |-> r.m,
         v |-> IF range.min = NaN THEN NaN
               ELSE (r.k * (range.max - range.min) * Milli) \div MathDen
                    + range.min * Milli]

\* lines 192-200: the record pushed for one slot, with the sources' states
PlanetRecord(orbitRadius, planetType, planetSize, planetAtmosphere,
             planetMoons, axialTilt) ==
    [a |-> planetMoons.a, m |-> axialTilt.m,
     planet |-> [type |-> planetType.v, orbitRadius |-> orbitRadius,
                 size |-> planetSize.v, radius |-> planetSize.v,
                 atmosphere |-> planetAtmosphere.v, moons |-> planetMoons.v,
                 axialTilt |-> axialTilt.v]]

\* a variant that takes the moons from Math.random instead of the stream
PlanetOfAtmosphere_MoonsUnseeded(orbitRadius, planetType, planetSize, planetAtmosphere) ==
    PlanetRecord(orbitRadius, planetType, planetSize, planetAtmosphere,
                 [a |-> planetSize.a, v |-> MathRandom(planetAtmosphere.m).k],
                 getAxialTilt(planetType.v, planetAtmosphere.m))

\* lines 186-187: moons, then axial tilt
PlanetOfAtmosphere(orbitRadius, planetType, planetSize, planetAtmosphere) ==
    PlanetRecord(orbitRadius, planetType, planetSize, planetAtmosphere,
                 getPlanetMoons(planetType.v, planetSize.a),
                 getAxialTilt(planetType.v, planetAtmosphere.m))

\* lines 184-185: size, then atmosphere
PlanetOfType(parentStar, orbitRadius, planetType, a) ==
    PlanetOfAtmosphere(orbitRadius, planetType, getPlanetSize(planetType.v, a),
        getPlanetAtmosphere(planetType.v, orbitRadius,
                            parentStar.habitableZone, planetType.m))

\* line 183: const planetType = determinePlanetType(parentStar, orbitRadius, ..)
PlanetOfRadius(parentStar, orbitRadius, a, m) ==
    PlanetOfType(parentStar, orbitRadius,
                 determinePlanetType(parentStar, orbitRadius, m), a)

\* lines 182-200: the body of the loop of generateSolarSystem for slot i
generatePlanet(parentStar, i, numberOfPlanets, a, m) ==
    PlanetOfRadius(parentStar,
                   getRandomOrbitRadius(parentStar, i, numberOfPlanets), a, m)

\* The loop of generateSolarSystem from slot i = planets.length on.
RECURSIVE PlanetLoop(_, _, _, _, _, _)
LoopStep(parentStar, numberOfPlanets, planets, added, step) ==
    PlanetLoop(parentStar, numberOfPlanets, Append(planets, step.planet),
               added \/ isInHabitableZone(step.planet.orbitRadius,
                                          parentStar.habitableZone),
               step.a, step.m)

PlanetLoop(parentStar, numberOfPlanets, planets, added, a, m) ==
    IF Len(planets) >= numberOfPlanets
    THEN [a |-> a, m |-> m, planets |-> planets,
          habitableZonePlanetAdded |-> added]
    ELSE LoopStep(parentStar, numberOfPlanets, planets, added,
                  generatePlanet(parentStar, Len(planets), numberOfPlanets,
                                 a, m))

\* a variant that re-derives the type of the planet it moves
Relocate_Retyped(planets, habitableZone, r) ==
    [a |-> r.a,
     planets |-> [planets EXCEPT ![FloorScale(r.t, Len(planets)) + 1] =
                      [@ EXCEPT !.type = "Terrestrial",
                                !.orbitRadius = (habitableZone.innerBoundary
                                    + habitableZone.outerBoundary) \div 2]]]

\* a variant that moves the picked planet to the inner boundary
Relocate_ToInnerBoundary(planets, habitableZone, r) ==
    [a |-> r.a,
     planets |-> [planets EXCEPT ![FloorScale(r.t, Len(planets)) + 1].orbitRadius
                      = habitableZone.innerBoundary]]

\* lines 339-340: the planet picked by the seeded draw r moves to the midpoint
Relocate(planets, habitableZone, r) ==
    [a |-> r.a,
     planets |-> [planets EXCEPT ![FloorScale(r.t, Len(planets)) + 1].orbitRadius
                      = (habitableZone.innerBoundary
                         + habitableZone.outerBoundary) \div 2]]

\* a variant that never moves a planet
adjustForHabitableZonePlanet_NoMove(planets, habitableZone, a) ==
    [a |-> a, planets |-> planets]

adjustForHabitableZonePlanet(planets, habitableZone, a) ==
    LET habitableZonePlanetExists ==
            \E j \in 1..Len(planets) :
                isInHabitableZone(planets[j].orbitRadius, habitableZone)
    IN  IF habitableZonePlanetExists THEN [a |-> a, planets |-> planets]
        ELSE Relocate(planets, habitableZone, splitmix32(a))

\* planets.sort((a, b) => a.orbitRadius - b.orbitRadius): a stable sort
RECURSIVE InsertByOrbit(_, _)
InsertByOrbit(sorted, p) ==
    IF sorted = << >> THEN << p >>
    ELSE IF sorted[Len(sorted)].orbitRadius <= p.orbitRadius
         THEN Append(sorted, p)
         ELSE Append(InsertByOrbit(SubSeq(sorted, 1, Len(sorted) - 1), p),
                     sorted[Len(sorted)])

RECURSIVE SortByOrbit(_, _)
SortByOrbit(planets, n) ==
    IF n = 0 THEN << >>
    ELSE InsertByOrbit(SortByOrbit(planets, n - 1), planets[n])

\* a variant that returns the planets in slot order
SortedSystem_Unsorted(adjusted, m) ==
    [a |-> adjusted.a, m |-> m, planets |-> adjusted.planets]

\* lines 206-207: sort and return
SortedSystem(adjusted, m) ==
    [a |-> adjusted.a, m |-> m,
     planets |-> SortByOrbit(adjusted.planets, Len(adjusted.planets))]

\* lines 203-205: the habitability pass runs when no slot was in the zone
SystemOfLoop(parentStar, loop) ==
    SortedSystem(IF ~loop.habitableZonePlanetAdded
                 THEN adjustForHabitableZonePlanet(loop.planets,
                          parentStar.habitableZone, loop.a)
                 ELSE [a |-> loop.a, planets |-> loop.planets],
                 loop.m)

\* lines 178-201: the loop over numberOfPlanets slots
SystemOfCount(parentStar, numberOfPlanets, m) ==
    SystemOfLoop(parentStar,
                 PlanetLoop(parentStar, numberOfPlanets.v, << >>, FALSE,
                            numberOfPlanets.a, m))

generateSolarSystem(parentStar, a, m) ==
    SystemOfCount(parentStar, getRandomInt(a, 3, 18), m)

set_random_seed(seed) == ToInt32(seed)

NoSeed == -1

\* lines 34-38: the returned record
OrbitResult(parentStar, sys) ==
    [a |-> sys.a, m |-> sys.m,
     ret |-> [parentStar |-> parentStar, solarSystem |-> sys.planets,
              habitableZone |-> parentStar.habitableZone]]

\* line 32: const solarSystem = generateSolarSystem(parentStar)
OrbitOfStar(parentStar, a, m) ==
    OrbitResult(parentStar, generateSolarSystem(parentStar, a, m))

\* line 31: parentStar.habitableZone = calculateHabitableZone(luminosity)
WithHabitableZone(star, habitableZone) ==
    [type |-> star.type, age |-> star.age, size |-> star.size,
     mass |-> star.mass, luminosity |-> star.luminosity,
     habitableZone |-> habitableZone]

\* a variant that takes the zone of the mass of the star
StarOfOrbit_ZoneOfMass(ps) ==
    [a |-> ps.a,
     star |-> WithHabitableZone(ps.star, calculateHabitableZone(ps.star.mass))]

\* lines 29-31: the star, its luminosity recomputed, its zone
StarOfOrbit(ps) ==
    [a |-> ps.a,
     star |-> WithHabitableZone(ps.star,
                  calculateHabitableZone(
                      generateStarLuminosity(ps.star.type, ps.star.size)))]

\* lines 29-32: generateSolarSystem is given the star with its zone
OrbitOfParentStar(ps, m) == OrbitOfStar(StarOfOrbit(ps).star, ps.a, m)

\* a variant that takes the seed 0 for no seed
generateOrbit_ZeroIsNoSeed(seed, a, m) ==
    OrbitOfParentStar(
        generateParentStar(IF seed # NoSeed /\ seed # 0
                           THEN set_random_seed(seed) ELSE a),
        m)

generateOrbit(seed, a, m) ==
    OrbitOfParentStar(
        generateParentStar(IF seed # NoSeed THEN set_random_seed(seed) ELSE a),
        m)

\* line 83 of populateUniverseData: the orbit of the last planet
systemOuterEdge(orbitData) ==
    orbitData.solarSystem[Len(orbitData.solarSystem)].orbitRadius

\* ------------------------------------------------- text of the page
\* the UTF-16 code units of the property names and string values of the page
Chars(s) ==
    CASE s = "parentStar" -> << 112, 97, 114, 101, 110, 116, 83, 116, 97, 114 >>
      [] s = "solarSystem" ->
            << 115, 111, 108, 97, 114, 83, 121, 115, 116, 101, 109 >>
      [] s = "type" -> << 116, 121, 112, 101 >>
      [] s = "size" -> << 115, 105, 122, 101 >>
      [] s = "mass" -> << 109, 97, 115, 115 >>
      [] s = "luminosity" ->
            << 108, 117, 109, 105, 110, 111, 115, 105, 116, 121 >>
      [] s = "orbitRadius" ->
            << 111, 114, 98, 105, 116, 82, 97, 100, 105, 117, 115 >>
      [] s = "axialTilt" -> << 97, 120, 105, 97, 108, 84, 105, 108, 116 >>
      [] s = "moons" -> << 109, 111, 111, 110, 115 >>
      [] s = "isTidallyLocked" ->
            << 105, 115, 84, 105, 100, 97, 108, 108, 121, 76, 111, 99, 107, 101, 100 >>
      [] s = "radius" -> << 114, 97, 100, 105, 117, 115 >>
      [] s = "atmosphere" ->
            << 97, 116, 109, 111, 115, 112, 104, 101, 114, 101 >>
      [] s = "age" -> << 97, 103, 101 >>
      [] s = "habitableZone" ->
            << 104, 97, 98, 105, 116, 97, 98, 108, 101, 90, 111, 110, 101 >>
      [] s = "innerBoundary" ->
            << 105, 110, 110, 101, 114, 66, 111, 117, 110, 100, 97, 114, 121 >>
      [] s = "outerBoundary" ->
            << 111, 117, 116, 101, 114, 66, 111, 117, 110, 100, 97, 114, 121 >>
      [] s = "selectedPlanet" ->
            << 115, 101, 108, 101, 99, 116, 101, 100, 80, 108, 97, 110, 101, 116 >>
      [] s = "systemOuterEdge" ->
            << 115, 121, 115, 116, 101, 109, 79, 117, 116, 101, 114, 69, 100, 103, 101 >>
      [] s = "starData" -> << 115, 116, 97, 114, 68, 97, 116, 97 >>
      [] s = "M" -> << 77 >>
      [] s = "K" -> << 75 >>
      [] s = "G" -> << 71 >>
      [] s = "F" -> << 70 >>
      [] s = "A" -> << 65 >>
      [] s = "B" -> << 66 >>
      [] s = "O" -> << 79 >>
      [] s = "Lava Planet" ->
            << 76, 97, 118, 97, 32, 80, 108, 97, 110, 101, 116 >>
      [] s = "Terrestrial" ->
            << 84, 101, 114, 114, 101, 115, 116, 114, 105, 97, 108 >>
      [] s = "Ocean World" ->
            << 79, 99, 101, 97, 110, 32, 87, 111, 114, 108, 100 >>
      [] s = "Gas Giant" -> << 71, 97, 115, 32, 71, 105, 97, 110, 116 >>
      [] s = "Ice Giant" -> << 73, 99, 101, 32, 71, 105, 97, 110, 116 >>
      [] s = "Dwarf Planet" ->
            << 68, 119, 97, 114, 102, 32, 80, 108, 97, 110, 101, 116 >>
      [] s = "trace" -> << 116, 114, 97, 99, 101 >>
      [] s = "carbon_dioxide_type_I" ->
            << 99, 97, 114, 98, 111, 110, 95, 100, 105, 111, 120, 105, 100, 101, 95, 116, 121, 112, 101, 95, 73 >>
      [] s = "carbon_dioxide_type_II" ->
            << 99, 97, 114, 98, 111, 110, 95, 100, 105, 111, 120, 105, 100, 101, 95, 116, 121, 112, 101, 95, 73, 73 >>
      [] s = "hydrogen_helium_type_I" ->
            << 104, 121, 100, 114, 111, 103, 101, 110, 95, 104, 101, 108, 105, 117, 109, 95, 116, 121, 112, 101, 95, 73 >>
      [] s = "hydrogen_helium_type_II" ->
            << 104, 121, 100, 114, 111, 103, 101, 110, 95, 104, 101, 108, 105, 117, 109, 95, 116, 121, 112, 101, 95, 73, 73 >>
      [] s = "hydrogen_helium_type_III" ->
            << 104, 121, 100, 114, 111, 103, 101, 110, 95, 104, 101, 108, 105, 117, 109, 95, 116, 121, 112, 101, 95, 73, 73, 73 >>
      [] s = "ice_type_I" -> << 105, 99, 101, 95, 116, 121, 112, 101, 95, 73 >>
      [] s = "ice_type_II" ->
            << 105, 99, 101, 95, 116, 121, 112, 101, 95, 73, 73 >>
      [] s = "nitrogen_type_I" ->
            << 110, 105, 116, 114, 111, 103, 101, 110, 95, 116, 121, 112, 101, 95, 73 >>
      [] s = "nitrogen_type_II" ->
            << 110, 105, 116, 114, 111, 103, 101, 110, 95, 116, 121, 112, 101, 95, 73, 73 >>
      [] s = "nitrogen_type_III" ->
            << 110, 105, 116, 114, 111, 103, 101, 110, 95, 116, 121, 112, 101, 95, 73, 73, 73 >>
      [] s = "carbon_type_I" ->
            << 99, 97, 114, 98, 111, 110, 95, 116, 121, 112, 101, 95, 73 >>
      [] s = "ammonia_type_I" ->
            << 97, 109, 109, 111, 110, 105, 97, 95, 116, 121, 112, 101, 95, 73 >>
      [] s = "geologicalData" ->
            << 103, 101, 111, 108, 111, 103, 105, 99, 97, 108, 68, 97, 116, 97 >>
      [] s = "composition" ->
            << 99, 111, 109, 112, 111, 115, 105, 116, 105, 111, 110 >>
      [] s = "ringAxialTilt" ->
            << 114, 105, 110, 103, 65, 120, 105, 97, 108, 84, 105, 108, 116 >>
      [] s = "length" ->
            << 108, 101, 110, 103, 116, 104 >>
      [] s = "unknown" -> << 117, 110, 107, 110, 111, 119, 110 >>

\* ------------------------------------------------ values of the page
\* A JavaScript value is a record with one field naming its kind: a number
\* (thousandths), a string (its code units), a boolean, null, an array, an
\* object (its properties in insertion order) or undefined.
Num(x) == [num |-> x]
Str(s) == [str |-> Chars(s)]
Bool(b) == [bool |-> b]
JsNull == [null |-> TRUE]
Undefined == [undef |-> TRUE]
Arr(elements) == [arr |-> elements]
Obj(members) == [obj |-> members]
Member(k, v) == [k |-> Chars(k), v |-> v]

IsKind(v, kind) == kind \in DOMAIN v

\* o[k] of JavaScript: undefined when the object has no such property
Prop(o, k) ==
    IF \E j \in 1..Len(o.obj) : o.obj[j].k = Chars(k)
    THEN o.obj[CHOOSE j \in 1..Len(o.obj) : o.obj[j].k = Chars(k)].v
    ELSE Undefined

\* ------------------------------------------------------ JSON.stringify
RECURSIVE DigitsOf(_)
DigitsOf(k) ==
    IF k < 10 THEN << 48 + k >>
    ELSE Append(DigitsOf(k \div 10), 48 + (k % 10))

\* a variant that writes the thousandths without their leading zeros
FractionOf_Unpadded(f) == DigitsOf(f)

\* the shortest decimal fraction of f thousandths, 0 < f < 1000
FractionOf(f) ==
    IF f % 10 # 0
    THEN << 48 + (f \div 100), 48 + ((f \div 10) % 10), 48 + (f % 10) >>
    ELSE IF f % 100 # 0 THEN << 48 + (f \div 100), 48 + ((f \div 10) % 10) >>
    ELSE << 48 + (f \div 100) >>

UnsignedToString(n) ==
    IF n % Milli = 0 THEN DigitsOf(n \div Milli)
    ELSE DigitsOf(n \div Milli) \o << 46 >> \o FractionOf(n % Milli)

NumberToString(n) ==
    IF n < 0 THEN << 45 >> \o UnsignedToString(0 - n) ELSE UnsignedToString(n)

\* a string literal: the quote and the backslash are escaped
RECURSIVE Escaped(_, _)
Escaped(s, i) ==
    IF i > Len(s) THEN << >>
    ELSE IF s[i] \in {34, 92} THEN << 92, s[i] >> \o Escaped(s, i + 1)
    ELSE << s[i] >> \o Escaped(s, i + 1)

Quote(s) == << 34 >> \o Escaped(s, 1) \o << 34 >>

TrueText == << 116, 114, 117, 101 >>
FalseText == << 102, 97, 108, 115, 101 >>
NullText == << 110, 117, 108, 108 >>

RECURSIVE Stringify(_)
RECURSIVE StringifyElements(_, _)
RECURSIVE StringifyMembers(_, _, _)

\* array elements from index i on; undefined is written as null
StringifyElements(elements, i) ==
    IF i > Len(elements) THEN << >>
    ELSE (IF i > 1 THEN << 44 >> ELSE << >>)
         \o (IF IsKind(elements[i], "undef") THEN NullText
             ELSE Stringify(elements[i]))
         \o StringifyElements(elements, i + 1)

\* properties from index i on; a property whose value is undefined is left out
StringifyMembers(members, i, first) ==
    IF i > Len(members) THEN << >>
    ELSE IF IsKind(members[i].v, "undef")
         THEN StringifyMembers(members, i + 1, first)
    ELSE (IF first THEN << >> ELSE << 44 >>)
         \o Quote(members[i].k) \o << 58 >> \o Stringify(members[i].v)
         \o StringifyMembers(members, i + 1, FALSE)

Stringify(v) ==
    CASE IsKind(v, "num") -> NumberToString(v.num)
      [] IsKind(v, "str") -> Quote(v.str)
      [] IsKind(v, "bool") -> IF v.bool THEN TrueText ELSE FalseText
      [] IsKind(v, "null") -> NullText
      [] IsKind(v, "arr") ->
            << 91 >> \o StringifyElements(v.arr, 1) \o << 93 >>
      [] IsKind(v, "obj") ->
            << 123 >> \o StringifyMembers(v.obj, 1, TRUE) \o << 125 >>

\* ---------------------------------------------------------- JSON.parse
Fail == [ok |-> FALSE]
Parsed(v, i) == [ok |-> TRUE, v |-> v, i |-> i]

IsWs(c) == c \in {32, 9, 10, 13}
IsDigit(c) == c >= 48 /\ c <= 57

RECURSIVE SkipWs(_, _)
SkipWs(t, i) ==
    IF i <= Len(t) /\ IsWs(t[i]) THEN SkipWs(t, i + 1) ELSE i

At(t, i, c) == i <= Len(t) /\ t[i] = c

StartsWith(t, i, word) ==
    /\ i + Len(word) - 1 <= Len(t)
    /\ SubSeq(t, i, i + Len(word) - 1) = word

\* the characters of a string literal after the opening quote
RECURSIVE StringScan(_, _, _)
StringScan(t, j, acc) ==
    IF j > Len(t) \/ t[j] < 32 THEN Fail
    ELSE IF t[j] = 34 THEN Parsed(acc, j + 1)
    ELSE IF t[j] # 92 THEN StringScan(t, j + 1, Append(acc, t[j]))
    ELSE IF j + 1 <= Len(t) /\ t[j + 1] \in {34, 92, 47}
         THEN StringScan(t, j + 2, Append(acc, t[j + 1]))
    ELSE Fail

StringValue(r) == IF r.ok THEN Parsed([str |-> r.v], r.i) ELSE Fail
ParseString(t, i) == StringValue(StringScan(t, i + 1, << >>))

\* the digits from j on: their value and the position after them
RECURSIVE IntScan(_, _, _)
IntScan(t, j, acc) ==
    IF j <= Len(t) /\ IsDigit(t[j])
    THEN IntScan(t, j + 1, acc * 10 + (t[j] - 48))
    ELSE [v |-> acc, i |-> j]

\* the digits of a fraction from j on: thousandths, further digits dropped
RECURSIVE FracScan(_, _, _, _)
FracScan(t, j, acc, weight) ==
    IF j <= Len(t) /\ IsDigit(t[j])
    THEN FracScan(t, j + 1, acc + (t[j] - 48) * weight, weight \div 10)
    ELSE [v |-> acc, i |-> j]

Signed(neg, x) == IF neg THEN 0 - x ELSE x

NumberOfFraction(t, neg, whole, frac) ==
    IF At(t, frac.i, 101) \/ At(t, frac.i, 69) THEN Fail
    ELSE Parsed(Num(Signed(neg, whole.v * Milli + frac.v)), frac.i)

NumberOfWhole(t, neg, start, whole) ==
    IF whole.i = start THEN Fail
    ELSE IF t[start] = 48 /\ whole.i > start + 1 THEN Fail
    ELSE IF At(t, whole.i, 46)
         THEN IF whole.i + 1 <= Len(t) /\ IsDigit(t[whole.i + 1])
              THEN NumberOfFraction(t, neg, whole,
                                    FracScan(t, whole.i + 1, 0, 100))
              ELSE Fail
    ELSE NumberOfFraction(t, neg, whole, [v |-> 0, i |-> whole.i])

NumberFrom(t, neg, start) ==
    NumberOfWhole(t, neg, start, IntScan(t, start, 0))

ParseNumber(t, i) ==
    IF t[i] = 45 THEN NumberFrom(t, TRUE, i + 1) ELSE NumberFrom(t, FALSE, i)

\* the value of property k replaced, or the property appended
PutMember(members, k, v) ==
    IF \E j \in 1..Len(members) : members[j].k = k
    THEN [j \in 1..Len(members) |->
             IF members[j].k = k THEN [k |-> k, v |-> v] ELSE members[j]]
    ELSE Append(members, [k |-> k, v |-> v])

RECURSIVE ParseValue(_, _)
RECURSIVE ParseElements(_, _, _)
RECURSIVE ParseMembers(_, _, _)

ElementsAfter(t, acc, r, j) ==
    IF ~r.ok THEN Fail
    ELSE IF At(t, j, 44) THEN ParseElements(t, j + 1, Append(acc, r.v))
    ELSE IF At(t, j, 93) THEN Parsed(Arr(Append(acc, r.v)), j + 1)
    ELSE Fail

ElementAt(t, acc, r) ==
    ElementsAfter(t, acc, r, IF r.ok THEN SkipWs(t, r.i) ELSE 0)

\* the elements of an array, the next one starting at i
ParseElements(t, i, acc) == ElementAt(t, acc, ParseValue(t, i))

MembersAfter(t, acc, key, r, j) ==
    IF ~r.ok THEN Fail
    ELSE IF At(t, j, 44)
         THEN ParseMembers(t, SkipWs(t, j + 1), PutMember(acc, key.v.str, r.v))
    ELSE IF At(t, j, 125)
         THEN Parsed(Obj(PutMember(acc, key.v.str, r.v)), j + 1)
    ELSE Fail

MemberValue(t, acc, key, r) ==
    MembersAfter(t, acc, key, r, IF r.ok THEN SkipWs(t, r.i) ELSE 0)

MemberColon(t, acc, key, j) ==
    IF At(t, j, 58) THEN MemberValue(t, acc, key, ParseValue(t, j + 1))
    ELSE Fail

MemberKey(t, acc, key) ==
    IF key.ok THEN MemberColon(t, acc, key, SkipWs(t, key.i)) ELSE Fail

\* the properties of an object, the next name starting at i
ParseMembers(t, i, acc) ==
    IF At(t, i, 34) THEN MemberKey(t, acc, ParseString(t, i)) ELSE Fail

ValueAt(t, i) ==
    IF i > Len(t) THEN Fail
    ELSE IF t[i] = 123
         THEN IF At(t, SkipWs(t, i + 1), 125)
              THEN Parsed(Obj(<< >>), SkipWs(t, i + 1) + 1)
              ELSE ParseMembers(t, SkipWs(t, i + 1), << >>)
    ELSE IF t[i] = 91
         THEN IF At(t, SkipWs(t, i + 1), 93)
              THEN Parsed(Arr(<< >>), SkipWs(t, i + 1) + 1)
              ELSE ParseElements(t, i + 1, << >>)
    ELSE IF t[i] = 34 THEN ParseString(t, i)
    ELSE IF t[i] = 45 \/ IsDigit(t[i]) THEN ParseNumber(t, i)
    ELSE IF StartsWith(t, i, TrueText) THEN Parsed(Bool(TRUE), i + 4)
    ELSE IF StartsWith(t, i, FalseText) THEN Parsed(Bool(FALSE), i + 5)
    ELSE IF StartsWith(t, i, NullText) THEN Parsed(JsNull, i + 4)
    ELSE Fail

ParseValue(t, i) == ValueAt(t, SkipWs(t, i))

WholeText(t, r) ==
    IF r.ok /\ SkipWs(t, r.i) > Len(t) THEN [ok |-> TRUE, v |-> r.v] ELSE Fail

\* JSON.parse(text): the value, or a SyntaxError (ok = FALSE)
JSONparse(t) == WholeText(t, ParseValue(t, 1))

\* ------------------------------------- encodeURIComponent and unescape
\* unescape(encodeURIComponent(s)): the UTF-8 bytes of the code units of s
Utf8Of(c) ==
    IF c < 128 THEN << c >>
    ELSE IF c < 2048 THEN << 192 + (c \div 64), 128 + (c % 64) >>
    ELSE << 224 + (c \div 4096), 128 + ((c \div 64) % 64), 128 + (c % 64) >>

RECURSIVE Utf8From(_, _)
Utf8From(s, i) ==
    IF i > Len(s) THEN << >> ELSE Utf8Of(s[i]) \o Utf8From(s, i + 1)

Utf8Encode(s) ==
    IF \A i \in 1..Len(s) : s[i] < 128 THEN s ELSE Utf8From(s, 1)

IsTail(b, i) == i <= Len(b) /\ b[i] >= 128 /\ b[i] < 192

\* decodeURIComponent(escape(b)): the code units, or a URIError
RECURSIVE Utf8Scan(_, _, _)
Utf8Scan(b, i, acc) ==
    IF i > Len(b) THEN [ok |-> TRUE, v |-> acc]
    ELSE IF b[i] < 128 THEN Utf8Scan(b, i + 1, Append(acc, b[i]))
    ELSE IF b[i] >= 194 /\ b[i] < 224 /\ IsTail(b, i + 1)
         THEN Utf8Scan(b, i + 2,
                       Append(acc, (b[i] - 192) * 64 + (b[i + 1] - 128)))
    ELSE IF b[i] >= 224 /\ b[i] < 240 /\ IsTail(b, i + 1) /\ IsTail(b, i + 2)
            /\ (b[i] - 224) * 4096 + (b[i + 1] - 128) * 64 >= 2048
         THEN Utf8Scan(b, i + 3,
                       Append(acc, (b[i] - 224) * 4096 + (b[i + 1] - 128) * 64
                                   + (b[i + 2] - 128)))
    ELSE [ok |-> FALSE]

Utf8Decode(b) ==
    IF \A i \in 1..Len(b) : b[i] < 128 THEN [ok |-> TRUE, v |-> b]
    ELSE Utf8Scan(b, 1, << >>)

\* ------------------------------------------------------- btoa and atob
B64Char(s) ==
    IF s < 26 THEN 65 + s
    ELSE IF s < 52 THEN 97 + (s - 26)
    ELSE IF s < 62 THEN 48 + (s - 52)
    ELSE IF s = 62 THEN 43
    ELSE 47

\* the sextet of a character of the alphabet, -1 for any other character
B64Value(c) ==
    IF c >= 65 /\ c <= 90 THEN c - 65
    ELSE IF c >= 97 /\ c <= 122 THEN c - 97 + 26
    ELSE IF c >= 48 /\ c <= 57 THEN c - 48 + 52
    ELSE IF c = 43 THEN 62
    ELSE IF c = 47 THEN 63
    ELSE 0 - 1

ByteAt(b, i) == IF i <= Len(b) THEN b[i] ELSE 0

\* btoa(b) for a string b of bytes
btoa(b) ==
    [i \in 1..(4 * ((Len(b) + 2) \div 3)) |->
        LET g == (i - 1) \div 4
            b1 == ByteAt(b, 3 * g + 1)
            b2 == ByteAt(b, 3 * g + 2)
            b3 == ByteAt(b, 3 * g + 3)
        IN  CASE (i - 1) % 4 = 0 -> B64Char(b1 \div 4)
              [] (i - 1) % 4 = 1 -> B64Char((b1 % 4) * 16 + (b2 \div 16))
              [] (i - 1) % 4 = 2 ->
                    IF 3 * g + 2 > Len(b) THEN 61
                    ELSE B64Char((b2 % 16) * 4 + (b3 \div 64))
              [] OTHER ->
                    IF 3 * g + 3 > Len(b) THEN 61 ELSE B64Char(b3 % 64)]

IsNotWs(c) == c \notin {32, 9, 10, 12, 13}

\* one or two trailing = of a text whose length is a multiple of 4 are dropped
Unpadded(t) ==
    IF Len(t) % 4 # 0 \/ Len(t) = 0 THEN t
    ELSE IF t[Len(t)] # 61 THEN t
    ELSE IF t[Len(t) - 1] # 61 THEN SubSeq(t, 1, Len(t) - 1)
    ELSE SubSeq(t, 1, Len(t) - 2)

SextetAt(t, i) == IF i <= Len(t) THEN B64Value(t[i]) ELSE 0

DecodedBytes(t) ==
    [k \in 1..(3 * (Len(t) \div 4) + (IF Len(t) % 4 = 0 THEN 0
                                       ELSE (Len(t) % 4) - 1)) |->
        LET g == (k - 1) \div 3
            s1 == SextetAt(t, 4 * g + 1)
            s2 == SextetAt(t, 4 * g + 2)
            s3 == SextetAt(t, 4 * g + 3)
            s4 == SextetAt(t, 4 * g + 4)
        IN  CASE (k - 1) % 3 = 0 -> s1 * 4 + (s2 \div 16)
              [] (k - 1) % 3 = 1 -> (s2 % 16) * 16 + (s3 \div 4)
              [] OTHER -> (s3 % 4) * 64 + s4]

AtobOfData(t) ==
    IF Len(t) % 4 = 1 \/ \E i \in 1..Len(t) : B64Value(t[i]) < 0
    THEN [ok |-> FALSE]
    ELSE [ok |-> TRUE, v |-> DecodedBytes(t)]

\* window.atob(text): the bytes, or an InvalidCharacterError
atob(text) == AtobOfData(Unpadded(SelectSeq(text, IsNotWs)))

\* ---------------------------------------------------- the page's data
\* lines 36-51: universeData before any system was generated
InitialUniverseData ==
    Obj(<< Member("parentStar",
                  Obj(<< Member("type", JsNull), Member("size", JsNull),
                         Member("age", JsNull), Member("mass", JsNull),
                         Member("luminosity", JsNull),
                         Member("habitableZone",
                                Obj(<< Member("innerBoundary", JsNull),
                                       Member("outerBoundary", JsNull) >>)) >>)),
           Member("solarSystem", Arr(<< >>)),
           Member("selectedPlanet", JsNull),
           Member("systemOuterEdge", JsNull) >>)

\* the star object generateOrbit returns, with its habitableZone property
StarValue(star) ==
    Obj(<< Member("type", Str(star.type)), Member("age", Num(star.age)),
           Member("size", Num(star.size)), Member("mass", Num(star.mass)),
           Member("luminosity", Num(star.luminosity)),
           Member("habitableZone",
                  Obj(<< Member("innerBoundary",
                                Num(star.habitableZone.innerBoundary)),
                         Member("outerBoundary",
                                Num(star.habitableZone.outerBoundary)) >>)) >>)

\* lines 93-107: the object populateUniverseData makes of a planet.  The
\* properties computed by modules outside src/ (rotationSpeed, orbitalSpeed,
\* geologicalData, atmosphereComposition, surfaceTemperature) are left out;
\* no handler modelled here reads them.
PlanetValue(planet, isTidallyLocked) ==
    Obj(<< Member("type", Str(planet.type)),
           Member("radius", Num(planet.size)),
           Member("orbitRadius", Num(planet.orbitRadius)),
           Member("atmosphere", Str(planet.atmosphere)),
           Member("moons", Num(planet.moons * Milli)),
           Member("axialTilt", Num(planet.axialTilt)),
           Member("isTidallyLocked", Bool(isTidallyLocked)) >>)

\* line 103, Math.random() < 0.1 for the planet at index j: getRotationSpeed
\* drew twice for this planet before, and three times for each earlier one
TidallyLocked(m, j) == 10 * ((m + 3 * (j - 1) + 2) % MathDen) < MathDen

PopulatedMembers(members, orbitData, m) ==
    PutMember(
        PutMember(
            PutMember(
                PutMember(members, Chars("parentStar"),
                          StarValue(orbitData.parentStar)),
                Chars("starData"), StarValue(orbitData.parentStar)),
            Chars("solarSystem"),
            Arr([j \in 1..Len(orbitData.solarSystem) |->
                    PlanetValue(orbitData.solarSystem[j], TidallyLocked(m, j))])),
        Chars("systemOuterEdge"), Num(systemOuterEdge(orbitData)))

\* populateUniverseData after line 76, for the orbitData generateOrbit
\* returned and the Math.random state m it left: an assignment to a property
\* of a value that is no object throws, and universeData stays as it was
populateUniverseData(universeData, orbitData, m) ==
    [m |-> IF IsKind(universeData, "obj")
           THEN (m + 3 * Len(orbitData.solarSystem)) % MathDen
           ELSE m,
     universeData |-> IF IsKind(universeData, "obj")
                      THEN Obj(PopulatedMembers(universeData.obj, orbitData, m))
                      ELSE universeData]

\* v.k of JavaScript where v is neither null nor undefined
Field(v, k) == IF IsKind(v, "obj") THEN Prop(v, k) ELSE Undefined

Throws(v) == IsKind(v, "null") \/ IsKind(v, "undef")

\* lines 121-128: the snapshot of one planet
FilteredPlanet(planet) ==
    Obj(<< Member("type", Field(planet, "type")),
           Member("orbitRadius", Field(planet, "orbitRadius")),
           Member("size", Field(planet, "radius")),
           Member("axialTilt", Field(planet, "axialTilt")),
           Member("moons", Field(planet, "moons")),
           Member("isTidallyLocked", Field(planet, "isTidallyLocked")) >>)

FilteredData(parentStar, solarSystem) ==
    Obj(<< Member("parentStar",
                  Obj(<< Member("type", Field(parentStar, "type")),
                         Member("size", Field(parentStar, "size")),
                         Member("mass", Field(parentStar, "mass")),
                         Member("luminosity",
                                Field(parentStar, "luminosity")) >>)),
           Member("solarSystem",
                  Arr([j \in 1..Len(solarSystem.arr) |->
                          FilteredPlanet(solarSystem.arr[j])])) >>)

\* a property read of null or undefined, or .map of a value that is no
\* array, throws a TypeError (ok = FALSE)
filterVitalDataForExport(universeData) ==
    IF \/ Throws(universeData)
       \/ Throws(Field(universeData, "parentStar"))
       \/ ~IsKind(Field(universeData, "solarSystem"), "arr")
    THEN [ok |-> FALSE]
    ELSE IF \E j \in 1..Len(Field(universeData, "solarSystem").arr) :
                Throws(Field(universeData, "solarSystem").arr[j])
    THEN [ok |-> FALSE]
    ELSE [ok |-> TRUE,
          v |-> FilteredData(Field(universeData, "parentStar"),
                             Field(universeData, "solarSystem"))]

\* lines 217-218: btoa(unescape(encodeURIComponent(JSON.stringify(data))))
ExportText(filteredData) == btoa(Utf8Encode(Stringify(filteredData)))

ParsedOfText(decoded) == IF decoded.ok THEN JSONparse(decoded.v) ELSE Fail
TextOfBytes(bytes) ==
    ParsedOfText(IF bytes.ok THEN Utf8Decode(bytes.v) ELSE [ok |-> FALSE])

\* lines 224-225: JSON.parse(decodeURIComponent(escape(window.atob(value)))),
\* ok = FALSE when one of the three throws
ImportValue(value) == TextOfBytes(atob(value))

\* ------------------------------------------------------- the scene
\* lines 137-146: universeData when the DOMContentLoaded handler has run,
\* the state in which the handlers of the page are registered
LoadedPlanet ==
    Obj(<< Member("type", Str("Terrestrial")), Member("radius", Num(Milli)),
           Member("orbitRadius", Num(Milli)) >>)

LoadedUniverseData ==
    Obj(PutMember(
          PutMember(
            PutMember(InitialUniverseData.obj, Chars("parentStar"),
                Obj(<< Member("type", Str("G")), Member("size", Num(Milli)),
                       Member("luminosity", Num(Milli)),
                       Member("habitableZone",
                              Obj(<< Member("innerBoundary", Num(950)),
                                     Member("outerBoundary", Num(1370)) >>)) >>)),
            Chars("solarSystem"), Arr(<< LoadedPlanet >>)),
          Chars("selectedPlanet"), LoadedPlanet))

\* A mesh of the scene: its name is `planet${index}`, `orbitPath${index}`
\* or 'visualStar'; data is the orbitRadius (the size, for the star) of the
\* object the mesh was made of.  The children without a name (helpers,
\* lights) are never looked up or removed and are left out.
Mesh(name, index, data) == [name |-> name, index |-> index, data |-> data]

\* an element of celestialObjects that was never assigned
Hole == Mesh("empty", 0, Undefined)

\* celestialObjects[k] = mesh on a JavaScript array: the array grows, the
\* elements skipped stay empty
SetAt(objs, k, mesh) ==
    IF k < Len(objs) THEN [objs EXCEPT ![k + 1] = mesh]
    ELSE objs \o [j \in 1..(k - Len(objs)) |-> Hole] \o << mesh >>

\* scene.getObjectByName(`${name}${index}`) finds a mesh
Found(children, name, index) ==
    \E c \in 1..Len(children) :
        children[c].name = name /\ children[c].index = index

\* v[k] = val in strict mode: a property of an object is set, an array
\* takes the property without showing it in its elements, anything else
\* throws a TypeError
CanSet(v) == IsKind(v, "obj") \/ IsKind(v, "arr")
SetProp(v, k, val) ==
    IF IsKind(v, "obj") THEN Obj(PutMember(v.obj, Chars(k), val)) ELSE v

\* universeData.solarSystem.length as the bound of a loop, and
\* universeData.solarSystem[i]
SystemLength(u) ==
    LET sys == Field(u, "solarSystem")
    IN  IF IsKind(sys, "arr") THEN Len(sys.arr)
        ELSE IF IsKind(sys, "str") THEN Len(sys.str)
        ELSE IF IsKind(sys, "obj") /\ IsKind(Field(sys, "length"), "num")
        THEN (Field(sys, "length").num + Milli - 1) \div Milli
        ELSE 0

PlanetAt(u, i) ==
    LET sys == Field(u, "solarSystem")
    IN  IF IsKind(sys, "arr") /\ i < Len(sys.arr) THEN sys.arr[i + 1]
        ELSE IF IsKind(sys, "str") /\ i < Len(sys.str)
        THEN [str |-> << sys.str[i + 1] >>]
        ELSE Undefined

\* universeData with the property k of the planet at index i set
WithPlanetProp(u, i, k, val) ==
    IF IsKind(Field(u, "solarSystem"), "arr")
    THEN SetProp(u, "solarSystem",
                 Arr([Field(u, "solarSystem").arr EXCEPT ![i + 1] =
                          SetProp(@, k, val)]))
    ELSE u

\* The values of generateGeologicalData and determinePlanetaryComposition
\* (crust.js): objects whose content no handler modelled here reads.
GeologicalData == Obj(<< >>)
Composition == Obj(<< >>)

\* Math.random calls of createNoiseTexture (1024 * 1024) and line 404
PlanetDraws == 1024 * 1024 + 1

\* The state the scene functions work on: universeData (u), scene.children,
\* celestialObjects (objs), the global currentTargetIndex (cur) and the
\* state of Math.random; ok is FALSE when the function threw.
SceneOf(u, children, objs, cur, m) ==
    [ok |-> TRUE, u |-> u, children |-> children, objs |-> objs,
     cur |-> cur, m |-> m]

Thrown(s) == [s EXCEPT !.ok = FALSE]

\* lines 728-738
IsKept(c) == c.name \notin {"planet", "orbitPath"}
cleanUp(s) ==
    [s EXCEPT !.children = SelectSeq(s.children, IsKept), !.objs = << >>]

\* lines 319-435: createPlanet(universeData.solarSystem[index], index)
WithPlanetMesh(s, index, planetMesh) ==
    [s EXCEPT !.children = Append(s.children, planetMesh),
              !.objs = SetAt(s.objs, index + 1, planetMesh),
              !.m = (s.m + PlanetDraws) % MathDen,
              !.ok = CanSet(PlanetAt(s.u, index)),
              !.u = WithPlanetProp(s.u, index, "geologicalData",
                                   GeologicalData)]

createPlanet(s, index) ==
    IF Throws(PlanetAt(s.u, index)) \/ Throws(Field(s.u, "parentStar"))
    THEN Thrown(s)
    ELSE WithPlanetMesh(s, index,
             Mesh("planet", index,
                  Field(PlanetAt(s.u, index), "orbitRadius")))

\* A call of updateScene that has not returned: it waits at the await of
\* line 455 for the composition of the planet at index i (live: the planet
\* is still one of universeData), or at the await of line 236 ("tail")
Awaiting(i) == [phase |-> "await", i |-> i, live |-> TRUE]
AtTail == [phase |-> "tail", i |-> 0, live |-> FALSE]
Ended == [phase |-> "ended", i |-> 0, live |-> FALSE]

\* lines 452-455: the test of the loop of generatePlanets at index i and
\* the body up to the await
AfterCreatePlanet(s, i) ==
    [s |-> s, call |-> IF s.ok THEN Awaiting(i) ELSE Ended]

LoopAt(s, i) ==
    IF Throws(s.u) \/ Throws(Field(s.u, "solarSystem"))
    THEN [s |-> Thrown(s), call |-> Ended]
    ELSE IF i < SystemLength(s.u)
    THEN AfterCreatePlanet(createPlanet(s, i), i)
    ELSE [s |-> s, call |-> AtTail]

\* lines 234-236: updateScene up to its first await
StartScene(s) == LoopAt(cleanUp(s), 0)

\* lines 456 and 452: the composition arrives, the loop goes on
ResumeLoop(s, call) ==
    LoopAt(IF call.live
           THEN [s EXCEPT !.u = WithPlanetProp(s.u, call.i, "composition",
                                               Composition)]
           ELSE s,
           call.i + 1)

\* a forEach over universeData.solarSystem throws when that is no array,
\* and its callback at the first planet that is null where it reads a
\* property of it
IsSystem(u) == ~Throws(u) /\ IsKind(Field(u, "solarSystem"), "arr")
FirstMissing(u, children, withMesh) ==
    LET bad == {j \in 0..(SystemLength(u) - 1) :
                   /\ Throws(PlanetAt(u, j))
                   /\ (withMesh => Found(children, "planet", j))}
    IN  IF bad = {} THEN SystemLength(u)
        ELSE CHOOSE j \in bad : \A k \in bad : j <= k

\* lines 472-479 and 438-449: ringAxialTilt of the giants that have a mesh
RingOf(planet, hasMesh) ==
    IF /\ hasMesh
       /\ Field(planet, "type") \in {Str("Gas Giant"), Str("Ice Giant")}
    THEN SetProp(planet, "ringAxialTilt", Field(planet, "axialTilt"))
    ELSE planet

RingsUpTo(u, children, n) ==
    SetProp(u, "solarSystem",
            Arr([j \in 1..Len(Field(u, "solarSystem").arr) |->
                    IF j <= n
                    THEN RingOf(Field(u, "solarSystem").arr[j],
                                Found(children, "planet", j - 1))
                    ELSE Field(u, "solarSystem").arr[j]]))

RingsOf(s, n) ==
    [s EXCEPT !.u = RingsUpTo(s.u, s.children, n),
              !.ok = n = SystemLength(s.u)]

generateRings(s) ==
    IF ~IsSystem(s.u) THEN Thrown(s)
    ELSE RingsOf(s, FirstMissing(s.u, s.children, TRUE))

\* lines 671-694: reads universeData.parentStar.type
updateStarLight(s) ==
    IF ~s.ok THEN s
    ELSE IF Throws(Field(s.u, "parentStar")) THEN Thrown(s) ELSE s

\* lines 777-806
IsNoStar(c) == c.name # "visualStar"
RECURSIVE WithoutFirstStar(_)
WithoutFirstStar(children) ==
    IF children = << >> THEN << >>
    ELSE IF ~IsNoStar(Head(children)) THEN Tail(children)
    ELSE << Head(children) >> \o WithoutFirstStar(Tail(children))

WithStar(s, starMesh) ==
    [s EXCEPT !.children = Append(WithoutFirstStar(s.children), starMesh),
              !.objs = SetAt(s.objs, 0, starMesh)]

addStarToScene(s) ==
    IF ~s.ok THEN s
    ELSE WithStar(s, Mesh("visualStar", 0,
                          Field(Field(s.u, "parentStar"), "size")))

\* lines 740-747: reads planetData.moons of the planets that have a mesh
generateMoons(s) ==
    IF ~s.ok THEN s
    ELSE IF FirstMissing(s.u, s.children, TRUE) < SystemLength(s.u)
    THEN Thrown(s) ELSE s

\* lines 632-643: one orbitPath for every planet of universeData
OrbitsOf(s, n) ==
    [s EXCEPT !.children =
                  s.children \o [j \in 1..n |->
                      Mesh("orbitPath", j - 1,
                           Field(PlanetAt(s.u, j - 1), "orbitRadius"))],
              !.ok = n = SystemLength(s.u)]

visualizeOrbits(s) ==
    IF ~s.ok THEN s ELSE OrbitsOf(s, FirstMissing(s.u, s.children, FALSE))

\* lines 460-470: getPlanetAtmosphere (atmosphere.js) is given
\* universeData.parentStar.habitableZone for every planet that has a mesh;
\* what it does with a zone that is no object is not known: throws says
\* whether it raised an exception
CanThrow(s) ==
    /\ ~IsKind(Field(Field(s.u, "parentStar"), "habitableZone"), "obj")
    /\ \E j \in 0..(SystemLength(s.u) - 1) : Found(s.children, "planet", j)

generateAtmospheres(s, throws) ==
    IF s.ok /\ throws /\ CanThrow(s) THEN Thrown(s) ELSE s

\* lines 248-257: zoomToStar with selectPlanet (lines 663-669)
zoomToStar(s) == IF s.ok THEN [s EXCEPT !.cur = 0] ELSE s

\* lines 237-245: updateScene after the await; a function called after
\* one that threw does not run (ok = FALSE).  generateSystemName, the
\* rings, the moons and the atmospheres call Math.random a number of
\* times that depends on the values drawn: mNext is the state they leave.
SceneTail(s, throws, mNext) ==
    [zoomToStar(
         generateAtmospheres(
             visualizeOrbits(
                 generateMoons(
                     addStarToScene(updateStarLight(generateRings(s))))),
             throws))
        EXCEPT !.m = mNext]

\* ------------------------------------------------------------ the state
VARIABLES
    a,           \* state of the closure `random` (the shared seeded stream)
    m,           \* state of the engine's Math.random
    orbitData,   \* value returned by the last call of generateOrbit
    calledWith,  \* seed argument of that call
    unseeded,    \* calls that continued the stream since the last reseed
    fnIn,        \* SpecFn: the function applied and its arguments
    fnOut,       \* SpecFn: the values returned so far, in call order
    universeData,  \* the page's global universeData
    base64Output,  \* value of the textarea base64Output
    base64Input,   \* value of the textarea base64Input
    alertMsg,      \* the last alert shown by an import
    sceneChildren,       \* scene.children, the named meshes
    celestialObjects,    \* the global array celestialObjects
    currentTargetIndex,  \* the global of line 25, read by the animation loop
    handlerTargetIndex,  \* the currentTargetIndex of line 152, local to the
                         \* DOMContentLoaded handler and its click handlers
    pending              \* the calls of updateScene that wait at an await

vars ==
    << a, m, orbitData, calledWith, unseeded, fnIn, fnOut, universeData,
       base64Output, base64Input, alertMsg, sceneChildren, celestialObjects,
       currentTargetIndex, handlerTargetIndex, pending >>

sceneVars ==
    << sceneChildren, celestialObjects, currentTargetIndex,
       handlerTargetIndex, pending >>

pageVars ==
    << universeData, base64Output, base64Input, alertMsg, sceneChildren,
       celestialObjects, currentTargetIndex, handlerTargetIndex, pending >>

\* lines 24-25 and 152: no scene was built yet
NoScene ==
    /\ sceneChildren = << >>
    /\ celestialObjects = << >>
    /\ currentTargetIndex = 0
    /\ handlerTargetIndex = 0
    /\ pending = << >>

NotCalled == NoSeed - 1
Seeds == 0..MaxSeed
MathValues == 0..(MathDen - 1)
NoData == [parentStar |-> [type |-> "none"], solarSystem |-> << >>]

Input(fn, luminosity, orbitRadius, n, start, seed, m0) ==
    [fn |-> fn, luminosity |-> luminosity, orbitRadius |-> orbitRadius,
     n |-> n, start |-> start, seed |-> seed, m |-> m0]

NoInput == Input("none", 0, 0, 0, 0, NoSeed, 0)

\* var SEED = Date.now(); var random = splitmix32(SEED): the clock is an
\* input, here one of two instants
StartSeeds == {1000003, 1000004}

Init ==
    /\ a \in {ToInt32(s) : s \in StartSeeds}
    /\ m \in MathValues
    /\ orbitData = NoData
    /\ calledWith = NotCalled
    /\ unseeded = 0
    /\ fnIn = NoInput
    /\ fnOut = << >>
    /\ universeData = InitialUniverseData
    /\ base64Output = << >>
    /\ base64Input = << >>
    /\ alertMsg = "none"
    /\ NoScene

\* set_random_seed(seed) called by a client of the module
SetRandomSeed(seed) ==
    /\ a' = set_random_seed(seed)
    /\ unseeded' = 0
    /\ UNCHANGED << m, orbitData, calledWith, fnIn, fnOut >>
    /\ UNCHANGED pageVars

\* generateOrbit(seed) with a seed
GenerateOrbitSeeded(seed) ==
    \E g \in {generateOrbit(seed, a, m)} :
        /\ a' = g.a
        /\ m' = g.m
        /\ orbitData' = g.ret
        /\ calledWith' = seed
        /\ unseeded' = 0
        /\ UNCHANGED << fnIn, fnOut >>
        /\ UNCHANGED pageVars

\* generateOrbit() without a seed, as populateUniverseData calls it
GenerateOrbitUnseeded ==
    /\ unseeded < MaxUnseeded
    /\ \E g \in {generateOrbit(NoSeed, a, m)} :
           /\ a' = g.a
           /\ m' = g.m
           /\ orbitData' = g.ret
           /\ calledWith' = NoSeed
           /\ unseeded' = unseeded + 1
           /\ UNCHANGED << fnIn, fnOut >>
           /\ UNCHANGED pageVars

\* any other use of Math.random by the page (names, textures, rotation)
OtherMathRandom ==
    /\ m' = MathRandom(m).m
    /\ UNCHANGED << a, orbitData, calledWith, unseeded, fnIn, fnOut >>
    /\ UNCHANGED pageVars

Next ==
    \/ \E seed \in Seeds : SetRandomSeed(seed)
    \/ \E seed \in Seeds : GenerateOrbitSeeded(seed)
    \/ GenerateOrbitUnseeded
    \/ OtherMathRandom

Spec == Init /\ [][Next]_vars

Called == calledWith # NotCalled

\* ------------------------------------------- single calls of the exports
\* SpecFn applies one exported function to arguments drawn by InitFn.

\* luminosities across the seven classes, 0.008 to 1000 solar units
Luminosities ==
    {8, 15, 56, 420, 576, 1000, 1090, 1998, 8750, 66225, 119000, 165000,
     455000, 1000000}

ZoneOf(luminosity) == calculateHabitableZone(luminosity)

\* orbit radii at and beside every threshold of the classifier
RadiiFor(luminosity) ==
    LET z == ZoneOf(luminosity)
    IN  {1, 200, z.innerBoundary - 1, z.innerBoundary,
         (z.innerBoundary + z.outerBoundary) \div 2, z.outerBoundary,
         z.outerBoundary + 1, z.outerBoundary + 4999, z.outerBoundary + 5000,
         z.outerBoundary + 14999, z.outerBoundary + 15000, 29999, 30000,
         63000}

\* seeds given to set_random_seed: small ones, ones whose sum with the
\* golden-ratio constant passes 2^32, and a negative one
RandomSeeds == {0, 1, 65535, 65536, 2147483647, 0 - 3}

\* lines 177-201 of generateSolarSystem: the count, then the loop
SlotsOfCount(parentStar, numberOfPlanets, m0) ==
    PlanetLoop(parentStar, numberOfPlanets.v, << >>, FALSE,
               numberOfPlanets.a, m0)

SlotsOfStar(s, m0) ==
    [parentStar |-> s.star,
     loop |-> SlotsOfCount(s.star, getRandomInt(s.a, 3, 18), m0)]

\* the types getPlanetAtmosphere is applied to: the six of
\* determinePlanetType and one that is none of them
ProbedTypes ==
    << "Terrestrial", "Ocean World", "Gas Giant", "Ice Giant", "Lava Planet",
       "Dwarf Planet", "Asteroid" >>

\* the classes the star functions are applied to: the seven of starTypes
\* and one that is none of them
ProbedClasses == starTypes \o << "X" >>

\* the types getAxialTilt is applied to: those of ProbedTypes and the name
\* of an inherited property
ProbedTiltTypes == ProbedTypes \o << "constructor" >>

\* a probe of a function of a class or type, the n-th of its list; the
\* size, where the function takes one, travels as orbitRadius
TypeInput(fn, n, size, start, m0) == Input(fn, 0, size, n, start, NoSeed, m0)

\* a probe of getRandomInt or getRandomValue: min travels as luminosity,
\* max as orbitRadius; wide = 1 stands for the bounds 0 and 2^32 + max
RangeInput(fn, min, max, wide, start) ==
    Input(fn, min, max, wide, start, NoSeed, 0)

IntRanges == {<< 0, 0 >>, << 0, 1 >>, << 3, 18 >>, << 0 - 2, 2 >>, << 1, 80 >>}
ValueRanges == {<< 0, 1 >>, << 100, 700 >>, << 0 - 500, 500 >>, << 16000, 90000 >>}
RangeStarts == 0..11

FnInputs ==
    {Input("calculateHabitableZone", l, 0, 0, 0, NoSeed, m0) :
        l \in Luminosities \cup 1..MaxLum, m0 \in {0}}
    \cup UNION {{Input("determinePlanetType", l, r, 0, 0, NoSeed, m0) :
                    r \in RadiiFor(l), m0 \in MathValues} : l \in Luminosities}
    \cup {Input("getRandomOrbitRadius", l, 0, n, 0, NoSeed, 0) :
            l \in Luminosities, n \in 3..18}
    \cup {Input("generateParentStar", 0, 0, 0, s, NoSeed, 0) : s \in 0..MaxFnSeed}
    \cup {Input("generateOrbit", 0, 0, 0, 0, s, m0) :
            s \in 0..MaxFnSeed, m0 \in MathValues}
    \cup {Input("random", 0, 0, 0, s0, s, 0) :
            s0 \in {0, 12345}, s \in RandomSeeds}
    \cup {TypeInput(fn, n, size, start, 0) :
            fn \in {"generateStarAge", "generateStarSizeAndMass",
                    "generateStarLuminosity"},
            n \in 1..Len(ProbedClasses), size \in {700, 1150},
            start \in {0, 12345}}
    \cup {RangeInput("getRandomInt", r[1], r[2], 0, start) :
            r \in IntRanges, start \in RangeStarts}
    \cup {RangeInput("getRandomInt", 0, over, 1, start) :
            over \in {0, 1}, start \in RangeStarts}
    \cup {RangeInput("getRandomValue", r[1], r[2], 0, start) :
            r \in ValueRanges, start \in RangeStarts}
    \cup {TypeInput("getAxialTilt", n, 0, 0, m0) :
            n \in 1..Len(ProbedTiltTypes), m0 \in MathValues}
    \cup {Input("generateSolarSystem", 0, 0, 0, 0, s, m0) :
            s \in 0..MaxFnSeed, m0 \in MathValues}
    \cup UNION {{Input("getPlanetAtmosphere", l, r, n, 0, NoSeed, m0) :
                    r \in RadiiFor(l), n \in 1..Len(ProbedTypes),
                    m0 \in MathValues} : l \in {1000, 66225}}

InitFn ==
    /\ fnIn \in FnInputs
    /\ fnOut = << >>
    /\ a = ToInt32(fnIn.start)
    /\ m = fnIn.m
    /\ orbitData = NoData
    /\ calledWith = NotCalled
    /\ unseeded = 0
    /\ universeData = InitialUniverseData
    /\ base64Output = << >>
    /\ base64Input = << >>
    /\ alertMsg = "none"
    /\ NoScene

CallCalculateHabitableZone ==
    /\ fnIn.fn = "calculateHabitableZone"
    /\ fnOut = << >>
    /\ fnOut' = << calculateHabitableZone(fnIn.luminosity) >>
    /\ UNCHANGED << a, m, orbitData, calledWith, unseeded, fnIn >>
    /\ UNCHANGED pageVars

\* determinePlanetType(parentStar, orbitRadius), applied twice
CallDeterminePlanetType ==
    /\ fnIn.fn = "determinePlanetType"
    /\ Len(fnOut) < 2
    /\ \E t \in {determinePlanetType([luminosity |-> fnIn.luminosity],
                                     fnIn.orbitRadius, m)} :
           /\ fnOut' = Append(fnOut, t.v)
           /\ m' = t.m
    /\ UNCHANGED << a, orbitData, calledWith, unseeded, fnIn >>
    /\ UNCHANGED pageVars

\* getRandomOrbitRadius(parentStar, i, n) for the slots i = 0, 1, .. in turn
CallGetRandomOrbitRadius ==
    /\ fnIn.fn = "getRandomOrbitRadius"
    /\ Len(fnOut) < fnIn.n
    /\ fnOut' = Append(fnOut,
                       getRandomOrbitRadius([luminosity |-> fnIn.luminosity],
                                            Len(fnOut), fnIn.n))
    /\ UNCHANGED << a, m, orbitData, calledWith, unseeded, fnIn >>
    /\ UNCHANGED pageVars

CallGenerateParentStar ==
    /\ fnIn.fn = "generateParentStar"
    /\ fnOut = << >>
    /\ \E ps \in {generateParentStar(a)} :
           /\ fnOut' = << ps.star >>
           /\ a' = ps.a
    /\ UNCHANGED << m, orbitData, calledWith, unseeded, fnIn >>
    /\ UNCHANGED pageVars

CallGenerateOrbit ==
    /\ fnIn.fn = "generateOrbit"
    /\ fnOut = << >>
    /\ \E g \in {generateOrbit(fnIn.seed, a, m)} :
           /\ fnOut' = << g.ret >>
           /\ a' = g.a
           /\ m' = g.m
    /\ UNCHANGED << orbitData, calledWith, unseeded, fnIn >>
    /\ UNCHANGED pageVars

\* getPlanetAtmosphere(planetType, orbitRadius, habitableZone)
CallGetPlanetAtmosphere ==
    /\ fnIn.fn = "getPlanetAtmosphere"
    /\ fnOut = << >>
    /\ \E t \in {getPlanetAtmosphere(ProbedTypes[fnIn.n], fnIn.orbitRadius,
                                      ZoneOf(fnIn.luminosity), m)} :
           /\ fnOut' = << t.v >>
           /\ m' = t.m
    /\ UNCHANGED << a, orbitData, calledWith, unseeded, fnIn >>
    /\ UNCHANGED pageVars

\* generateSolarSystem(parentStar) up to the end of its loop, for the star
\* of generateOrbit(seed): fnOut holds the star and the slots as generated
CallGenerateSlots ==
    /\ fnIn.fn = "generateSolarSystem"
    /\ fnOut = << >>
    /\ \E g \in {SlotsOfStar(StarOfOrbit(generateParentStar(
                       set_random_seed(fnIn.seed))), m)} :
           /\ fnOut' = << [parentStar |-> g.parentStar,
                           planets |-> g.loop.planets,
                           habitableZonePlanetAdded |->
                               g.loop.habitableZonePlanetAdded,
                           a |-> g.loop.a] >>
           /\ a' = g.loop.a
           /\ m' = g.loop.m
    /\ UNCHANGED << orbitData, calledWith, unseeded, fnIn >>
    /\ UNCHANGED pageVars

\* lines 203-205 of generateSolarSystem: the habitability pass on the slots
CallHabitabilityPass ==
    /\ fnIn.fn = "generateSolarSystem"
    /\ Len(fnOut) = 1
    /\ \E adjusted \in
           {IF ~fnOut[1].habitableZonePlanetAdded
            THEN adjustForHabitableZonePlanet(fnOut[1].planets,
                     fnOut[1].parentStar.habitableZone, a)
            ELSE [a |-> a, planets |-> fnOut[1].planets]} :
           /\ fnOut' = Append(fnOut, adjusted.planets)
           /\ a' = adjusted.a
    /\ UNCHANGED << m, orbitData, calledWith, unseeded, fnIn >>
    /\ UNCHANGED pageVars

\* getRandomInt(min, max), the bounds wide or not
CallGetRandomInt ==
    /\ fnIn.fn = "getRandomInt"
    /\ fnOut = << >>
    /\ \E r \in {IF fnIn.n = 0
                  THEN getRandomInt(a, fnIn.luminosity, fnIn.orbitRadius)
                  ELSE getRandomIntWide(a, fnIn.orbitRadius)} :
           /\ fnOut' = << r.v >>
           /\ a' = r.a
    /\ UNCHANGED << m, orbitData, calledWith, unseeded, fnIn >>
    /\ UNCHANGED pageVars

CallGetRandomValue ==
    /\ fnIn.fn = "getRandomValue"
    /\ fnOut = << >>
    /\ \E r \in {getRandomValue(a, fnIn.luminosity, fnIn.orbitRadius)} :
           /\ fnOut' = << r.v >>
           /\ a' = r.a
    /\ UNCHANGED << m, orbitData, calledWith, unseeded, fnIn >>
    /\ UNCHANGED pageVars

CallGenerateStarAge ==
    /\ fnIn.fn = "generateStarAge"
    /\ fnOut = << >>
    /\ \E age \in {generateStarAge(ProbedClasses[fnIn.n], a)} :
           /\ fnOut' = << age.v >>
           /\ a' = age.a
    /\ UNCHANGED << m, orbitData, calledWith, unseeded, fnIn >>
    /\ UNCHANGED pageVars

CallGenerateStarSizeAndMass ==
    /\ fnIn.fn = "generateStarSizeAndMass"
    /\ fnOut = << >>
    /\ \E sm \in {generateStarSizeAndMass(ProbedClasses[fnIn.n], 0, a)} :
           /\ fnOut' = << [size |-> sm.size, mass |-> sm.mass] >>
           /\ a' = sm.a
    /\ UNCHANGED << m, orbitData, calledWith, unseeded, fnIn >>
    /\ UNCHANGED pageVars

CallGenerateStarLuminosity ==
    /\ fnIn.fn = "generateStarLuminosity"
    /\ fnOut = << >>
    /\ fnOut' = << generateStarLuminosity(ProbedClasses[fnIn.n],
                                          fnIn.orbitRadius) >>
    /\ UNCHANGED << a, m, orbitData, calledWith, unseeded, fnIn >>
    /\ UNCHANGED pageVars

CallGetAxialTilt ==
    /\ fnIn.fn = "getAxialTilt"
    /\ fnOut = << >>
    /\ \E t \in {getAxialTilt(ProbedTiltTypes[fnIn.n], m)} :
           /\ fnOut' = << t.v >>
           /\ m' = t.m
    /\ UNCHANGED << a, orbitData, calledWith, unseeded, fnIn >>
    /\ UNCHANGED pageVars

\* set_random_seed(seed) after the stream was started from another state
CallSetRandomSeed ==
    /\ fnIn.fn = "random"
    /\ calledWith = NotCalled
    /\ a' = set_random_seed(fnIn.seed)
    /\ calledWith' = fnIn.seed
    /\ UNCHANGED << m, orbitData, unseeded, fnIn, fnOut >>
    /\ UNCHANGED pageVars

\* random() after the reseed; fnOut collects the words t, the value
\* returned being t / 4294967296
CallRandom ==
    /\ fnIn.fn = "random"
    /\ calledWith # NotCalled
    /\ Len(fnOut) < MaxDraws
    /\ \E r \in {splitmix32(a)} :
           /\ a' = r.a
           /\ fnOut' = Append(fnOut, r.t)
    /\ UNCHANGED << m, orbitData, calledWith, unseeded, fnIn >>
    /\ UNCHANGED pageVars

NextFn ==
    \/ CallSetRandomSeed
    \/ CallRandom
    \/ CallCalculateHabitableZone
    \/ CallDeterminePlanetType
    \/ CallGetRandomOrbitRadius
    \/ CallGenerateParentStar
    \/ CallGenerateOrbit
    \/ CallGetPlanetAtmosphere
    \/ CallGenerateSlots
    \/ CallHabitabilityPass
    \/ CallGenerateStarAge
    \/ CallGenerateStarSizeAndMass
    \/ CallGenerateStarLuminosity
    \/ CallGetAxialTilt
    \/ CallGetRandomInt
    \/ CallGetRandomValue

SpecFn == InitFn /\ [][NextFn]_vars

Applied(fn) == fnIn.fn = fn /\ fnOut # << >>

\* --------------------------------------------------- the page handlers
\* SpecPage: the page generates a system, exports it and imports a text.

\* texts a user can put into base64Input besides an exported one: the
\* base64 of {}, null, { and {"parentStar":{},"solarSystem":[]}, a byte that
\* is no UTF-8, and a text outside the base64 alphabet
PastedTexts ==
    {<< 101, 51, 48, 61 >>, << 98, 110, 86, 115, 98, 65, 61, 61 >>,
     << 101, 119, 61, 61 >>,
     << 101, 121, 74, 119, 89, 88, 74, 108, 98, 110, 82, 84, 100, 71, 70,
        121, 73, 106, 112, 55, 102, 83, 119, 105, 99, 50, 57, 115, 89, 88,
        74, 84, 101, 88, 78, 48, 90, 87, 48, 105, 79, 108, 116, 100, 102,
        81, 61, 61 >>,
     << 47, 119, 61, 61 >>, << 33, 33 >>}

InitPage ==
    /\ a \in {ToInt32(FirstPageSeed + s) : s \in 0..MaxPageSeed}
    /\ m \in MathValues
    /\ orbitData = NoData
    /\ calledWith = NotCalled
    /\ unseeded = 0
    /\ fnIn = NoInput
    /\ fnOut = << >>
    /\ universeData = LoadedUniverseData
    /\ base64Output = << >>
    /\ base64Input = << >>
    /\ alertMsg = "none"
    /\ NoScene

\* the scene functions work on the page's state
CurrentScene(u, m0) ==
    SceneOf(u, sceneChildren, celestialObjects, currentTargetIndex, m0)

SceneBecomes(s) ==
    /\ universeData' = s.u
    /\ sceneChildren' = s.children
    /\ celestialObjects' = s.objs
    /\ currentTargetIndex' = s.cur
    /\ m' = s.m

\* universeData.solarSystem was replaced: the planets the waiting calls
\* hold are no longer planets of universeData
Stale(calls) == [k \in 1..Len(calls) |-> [calls[k] EXCEPT !.live = FALSE]]

WithCall(calls, call) ==
    IF call.phase = "ended" THEN calls ELSE Append(calls, call)

WithoutCall(calls, k) ==
    SubSeq(calls, 1, k - 1) \o SubSeq(calls, k + 1, Len(calls))

\* updateScene() called by a handler whose universeData is u: the part up
\* to the first await runs in the handler
UpdateSceneCalled(u, m0) ==
    \E r \in {StartScene(CurrentScene(u, m0))} :
        /\ SceneBecomes(r.s)
        /\ pending' = WithCall(Stale(pending), r.call)

\* click on generateSystemButton (lines 827-832): populateUniverseData(),
\* the two displays, updateScene(); when populateUniverseData throws the
\* handler ends there
GenerateSystemClick ==
    /\ unseeded < MaxPopulate
    /\ Len(pending) < MaxPending
    /\ \E g \in {generateOrbit(NoSeed, a, m)} :
           \E u \in {populateUniverseData(universeData, g.ret, g.m)} :
               /\ a' = g.a
               /\ orbitData' = g.ret
               /\ IF IsKind(universeData, "obj")
                  THEN UpdateSceneCalled(u.universeData, u.m)
                  ELSE /\ m' = u.m
                       /\ UNCHANGED << universeData, sceneChildren,
                                       celestialObjects, currentTargetIndex,
                                       pending >>
    /\ calledWith' = NoSeed
    /\ unseeded' = unseeded + 1
    /\ UNCHANGED << fnIn, fnOut, base64Output, base64Input, alertMsg,
                    handlerTargetIndex >>

\* click on exportSystem; an exception in the handler leaves the page as it is
ExportSystemClick ==
    /\ \E f \in {filterVitalDataForExport(universeData)} :
           base64Output' = IF f.ok THEN ExportText(f.v) ELSE base64Output
    /\ UNCHANGED << a, m, orbitData, calledWith, unseeded, fnIn, fnOut,
                    universeData, base64Input, alertMsg >>
    /\ UNCHANGED sceneVars

\* the user puts a text into base64Input
PasteBase64Input(text) ==
    /\ base64Input' = text
    /\ UNCHANGED << a, m, orbitData, calledWith, unseeded, fnIn, fnOut,
                    universeData, base64Output, alertMsg >>
    /\ UNCHANGED sceneVars

\* click on importSystem (lines 222-230): the parsed value replaces
\* universeData, the alert is shown, updateScene() is called; what
\* updateScene throws stays in its promise
ImportSystemClick ==
    /\ Len(pending) < MaxPending
    /\ \E r \in {ImportValue(base64Input)} :
           /\ alertMsg' = IF r.ok THEN "imported" ELSE "failed"
           /\ IF r.ok THEN UpdateSceneCalled(r.v, m)
              ELSE UNCHANGED << m, universeData, sceneChildren,
                                celestialObjects, currentTargetIndex,
                                pending >>
    /\ UNCHANGED << a, orbitData, calledWith, unseeded, fnIn, fnOut,
                    base64Output, base64Input, handlerTargetIndex >>

\* the composition awaited by the k-th waiting call arrives (line 455):
\* generatePlanets goes on to the next planet of the universeData of now
ResumeGeneratePlanets(k) ==
    /\ k \in 1..Len(pending)
    /\ pending[k].phase = "await"
    /\ \E r \in {ResumeLoop(CurrentScene(universeData, m), pending[k])} :
           /\ SceneBecomes(r.s)
           /\ pending' = IF r.call.phase = "ended"
                         THEN WithoutCall(pending, k)
                         ELSE [pending EXCEPT ![k] = r.call]
    /\ UNCHANGED << a, orbitData, calledWith, unseeded, fnIn, fnOut,
                    base64Output, base64Input, alertMsg, handlerTargetIndex >>

\* generatePlanets of the k-th waiting call has returned (line 236):
\* updateScene runs to its end
FinishUpdateScene(k) ==
    /\ k \in 1..Len(pending)
    /\ pending[k].phase = "tail"
    /\ \E throws \in BOOLEAN, mNext \in MathValues :
           SceneBecomes(SceneTail(CurrentScene(universeData, m), throws, mNext))
    /\ pending' = WithoutCall(pending, k)
    /\ UNCHANGED << a, orbitData, calledWith, unseeded, fnIn, fnOut,
                    base64Output, base64Input, alertMsg, handlerTargetIndex >>

\* the loop of generatePlanets from the await of a call to its end
RECURSIVE RunLoop(_)
RunLoop(r) ==
    IF r.call.phase = "await" THEN RunLoop(ResumeLoop(r.s, r.call)) ELSE r

AfterLoop(r, throws, mNext) ==
    IF r.call.phase = "tail" THEN SceneTail(r.s, throws, mNext) ELSE r.s

\* the one waiting call of updateScene goes through all its awaits and
\* returns before another event arrives
CompleteUpdateScene ==
    /\ Len(pending) = 1
    /\ \E r \in {RunLoop([s |-> CurrentScene(universeData, m),
                           call |-> pending[1]])} :
           \E throws \in BOOLEAN, mNext \in MathValues :
               \E s \in {AfterLoop(r, throws, mNext)} : SceneBecomes(s)
    /\ pending' = << >>
    /\ UNCHANGED << a, orbitData, calledWith, unseeded, fnIn, fnOut,
                    base64Output, base64Input, alertMsg, handlerTargetIndex >>

\* lines 154-169, 171-178 and 180-196: the handlers set the
\* currentTargetIndex of line 152, selectPlanet copies it to the global;
\* an exception of displayTimeConversions ends the handler after that
navUnchanged ==
    << a, m, orbitData, calledWith, unseeded, fnIn, fnOut, universeData,
       base64Output, base64Input, alertMsg, sceneChildren, celestialObjects,
       pending >>

PrevPlanetClick ==
    /\ handlerTargetIndex' = IF handlerTargetIndex - 1 > 0
                             THEN handlerTargetIndex - 1 ELSE 0
    /\ currentTargetIndex' = handlerTargetIndex'
    /\ UNCHANGED navUnchanged

SnapToStarClick ==
    /\ handlerTargetIndex' = 0
    /\ currentTargetIndex' = 0
    /\ UNCHANGED navUnchanged

NextPlanetClick ==
    /\ handlerTargetIndex' =
           IF handlerTargetIndex + 1 < Len(celestialObjects) - 1
           THEN handlerTargetIndex + 1 ELSE Len(celestialObjects) - 1
    /\ currentTargetIndex' = handlerTargetIndex'
    /\ UNCHANGED navUnchanged

\* SpecPage: every await of updateScene is over before the next event of
\* the user arrives
NextPage ==
    \/ pending = << >> /\ GenerateSystemClick
    \/ pending = << >> /\ ExportSystemClick
    \/ /\ pending = << >>
       /\ \E text \in PastedTexts \cup {base64Output} : PasteBase64Input(text)
    \/ pending = << >> /\ ImportSystemClick
    \/ CompleteUpdateScene

SpecPage == InitPage /\ [][NextPage]_vars

\* SpecScene: the events of the user arrive at any time, also while calls
\* of updateScene wait.  The text in base64Input is the base64 of
\* {"parentStar":{"type":"K","size":0.8,"mass":0.7,"luminosity":0.42},
\*  "solarSystem":[{"type":"Gas Giant","orbitRadius":5.2,"size":11,
\*  "axialTilt":3,"moons":2,"isTidallyLocked":false}]}
ShortSnapshot ==
    << 101, 121, 74, 119, 89, 88, 74, 108, 98, 110, 82, 84, 100, 71,
       70, 121, 73, 106, 112, 55, 73, 110, 82, 53, 99, 71, 85, 105,
       79, 105, 74, 76, 73, 105, 119, 105, 99, 50, 108, 54, 90, 83,
       73, 54, 77, 67, 52, 52, 76, 67, 74, 116, 89, 88, 78, 122, 73,
       106, 111, 119, 76, 106, 99, 115, 73, 109, 120, 49, 98, 87, 108,
       117, 98, 51, 78, 112, 100, 72, 107, 105, 79, 106, 65, 117, 78,
       68, 74, 57, 76, 67, 74, 122, 98, 50, 120, 104, 99, 108, 78, 53,
       99, 51, 82, 108, 98, 83, 73, 54, 87, 51, 115, 105, 100, 72,
       108, 119, 90, 83, 73, 54, 73, 107, 100, 104, 99, 121, 66, 72,
       97, 87, 70, 117, 100, 67, 73, 115, 73, 109, 57, 121, 89, 109,
       108, 48, 85, 109, 70, 107, 97, 88, 86, 122, 73, 106, 111, 49,
       76, 106, 73, 115, 73, 110, 78, 112, 101, 109, 85, 105, 79, 106,
       69, 120, 76, 67, 74, 104, 101, 71, 108, 104, 98, 70, 82, 112,
       98, 72, 81, 105, 79, 106, 77, 115, 73, 109, 49, 118, 98, 50,
       53, 122, 73, 106, 111, 121, 76, 67, 74, 112, 99, 49, 82, 112,
       90, 71, 70, 115, 98, 72, 108, 77, 98, 50, 78, 114, 90, 87, 81,
       105, 79, 109, 90, 104, 98, 72, 78, 108, 102, 86, 49, 57 >>

SceneTexts == {ShortSnapshot}

\* start states of the stream whose first system has four planets
SceneSeeds == {4, 6}

InitScene ==
    /\ a \in {ToInt32(s) : s \in SceneSeeds}
    /\ m = 0
    /\ orbitData = NoData
    /\ calledWith = NotCalled
    /\ unseeded = 0
    /\ fnIn = NoInput
    /\ fnOut = << >>
    /\ universeData = LoadedUniverseData
    /\ base64Output = << >>
    /\ base64Input \in SceneTexts
    /\ alertMsg = "none"
    /\ NoScene

NextScene ==
    \/ GenerateSystemClick
    \/ ImportSystemClick
    \/ \E k \in 1..Len(pending) : ResumeGeneratePlanets(k)
    \/ \E k \in 1..Len(pending) : FinishUpdateScene(k)
    \/ PrevPlanetClick
    \/ SnapToStarClick
    \/ NextPlanetClick

SpecScene == InitScene /\ [][NextScene]_vars

\* ------------------------------------------------------------- claims
FnRet == fnOut[1]

HabitableTypes == {"Terrestrial", "Ocean World"}
PlanetTypes ==
    {"Lava Planet", "Terrestrial", "Ocean World", "Gas Giant", "Ice Giant",
     "Dwarf Planet"}

\* the types the classifier's bands allow at radius r for the zone [inner, outer]
BandTypes(inner, outer, r) ==
    IF r < inner THEN {"Lava Planet"}
    ELSE IF r <= outer THEN HabitableTypes
    ELSE IF r < outer + 15000 THEN {"Gas Giant"}
    ELSE IF r < 30000 THEN {"Ice Giant"}
    ELSE {"Dwarf Planet"}

InZone(r, zone) == zone.innerBoundary <= r /\ r <= zone.outerBoundary

Radii(system) == {system[j].orbitRadius : j \in 1..Len(system)}

\* the radii of the slots a system of the star with n planets was generated at
SlotRadius(star, i, n) == getRandomOrbitRadius(star, i, n)

Midpoint(zone) == (zone.innerBoundary + zone.outerBoundary) \div 2

\* the habitability pass acted: no generated slot lies in the zone
PassActed(ret) ==
    \A i \in 0..(Len(ret.solarSystem) - 1) :
        ~InZone(SlotRadius(ret.parentStar, i, Len(ret.solarSystem)),
                ret.habitableZone)

\* C1: two calls generateOrbit(s) with the same seed s return identical
\* results in every field, whatever Math.random returns between and during
\* the calls.
C1_SameSeedSameResult ==
    [][(calledWith \in Seeds /\ calledWith' = calledWith)
           => orbitData' = orbitData]_vars

\* C2: every system returned by generateOrbit has at least one planet p with
\* isInHabitableZone(p.orbitRadius, result.habitableZone), i.e.
\* innerBoundary <= p.orbitRadius <= outerBoundary.
C2_HabitablePlanetExists ==
    Applied("generateOrbit") =>
        \E j \in 1..Len(FnRet.solarSystem) :
            /\ isInHabitableZone(FnRet.solarSystem[j].orbitRadius,
                                 FnRet.habitableZone)
            /\ InZone(FnRet.solarSystem[j].orbitRadius, FnRet.habitableZone)

C2_RelocatedIntoZone ==
    /\ Applied("generateOrbit")
    /\ PassActed(FnRet)
    /\ Midpoint(FnRet.habitableZone) \in Radii(FnRet.solarSystem)

\* C3: solarSystem is sorted ascending by orbitRadius, also when the pass
\* moved a planet, its length is in 3..18, and the last element has the
\* largest orbitRadius, the value populateUniverseData takes as
\* systemOuterEdge.
C3_SortedAndCounted ==
    Applied("generateOrbit") =>
        /\ Len(FnRet.solarSystem) \in 3..18
        /\ \A j \in 1..(Len(FnRet.solarSystem) - 1) :
               FnRet.solarSystem[j].orbitRadius
                   <= FnRet.solarSystem[j + 1].orbitRadius
        /\ \A r \in Radii(FnRet.solarSystem) : r <= systemOuterEdge(FnRet)

\* the pass moved the planet of slot i across at least one other planet
C3_RelocatedOutOfOrder ==
    /\ Applied("generateOrbit")
    /\ PassActed(FnRet)
    /\ \E i \in 0..(Len(FnRet.solarSystem) - 1) :
           /\ SlotRadius(FnRet.parentStar, i, Len(FnRet.solarSystem))
                  \notin Radii(FnRet.solarSystem)
           /\ FnRet.solarSystem[i + 1].orbitRadius
                  # Midpoint(FnRet.habitableZone)

C5_OrderedBranches ==
    Applied("determinePlanetType") =>
        LET inner == ZoneOf(fnIn.luminosity).innerBoundary
            outer == ZoneOf(fnIn.luminosity).outerBoundary
            r == fnIn.orbitRadius
            t == fnOut[1]
            lava == r < inner
            habitable == inner <= r /\ r <= outer
            gas == outer < r /\ r < outer + 15000
            ice == outer + 15000 <= r /\ r < 30000
        IN  /\ t \in PlanetTypes
            /\ (t = "Lava Planet") <=> lava
            /\ (t \in HabitableTypes) <=> habitable
            /\ (t = "Gas Giant") <=> gas
            /\ (t = "Ice Giant") <=> ice
            /\ (t = "Dwarf Planet") <=> ~(lava \/ habitable \/ gas \/ ice)
            /\ (outer + 5000 <= r /\ r < outer + 15000) => t = "Gas Giant"
            /\ outer >= 15000 => t # "Ice Giant"
            /\ Cardinality({b \in {1, 2, 3, 4} :
                               \/ b = 1 /\ lava
                               \/ b = 2 /\ habitable
                               \/ b = 3 /\ gas
                               \/ b = 4 /\ ice}) <= 1

\* an orbit both bands accept, outer+5 <= r < min(outer+15, 30), is a Gas Giant
C5_OverlapIsGasGiant ==
    /\ Applied("determinePlanetType")
    /\ fnIn.orbitRadius >= ZoneOf(fnIn.luminosity).outerBoundary + 5000
    /\ fnIn.orbitRadius < ZoneOf(fnIn.luminosity).outerBoundary + 15000
    /\ fnIn.orbitRadius < 30000
    /\ fnOut[1] = "Gas Giant"

\* C6: in the returned system every planet's type is the one its
\* orbitRadius determines: Terrestrial or Ocean World in [inner, outer], Lava
\* Planet below inner, Gas Giant, Ice Giant or Dwarf Planet above outer.
C6_TypeFollowsRadius ==
    Applied("generateOrbit") =>
        \A j \in 1..Len(FnRet.solarSystem) :
            FnRet.solarSystem[j].type
                \in BandTypes(FnRet.habitableZone.innerBoundary,
                              FnRet.habitableZone.outerBoundary,
                              FnRet.solarSystem[j].orbitRadius)

\* C7: for every luminosity L > 0, calculateHabitableZone(L) returns
\* innerBoundary = sqrt(L/1.1) and outerBoundary = sqrt(L/0.53) with
\* 0 < innerBoundary < outerBoundary, and changes neither random source.
C7_HabitableZone ==
    Applied("calculateHabitableZone") =>
        LET inner == FnRet.innerBoundary
            outer == FnRet.outerBoundary
            l == fnIn.luminosity
        IN  /\ inner * inner <= MulDiv(l, 100000, 110)
            /\ MulDiv(l, 100000, 110) < (inner + 1) * (inner + 1)
            /\ outer * outer <= MulDiv(l, 100000, 53)
            /\ MulDiv(l, 100000, 53) < (outer + 1) * (outer + 1)
            /\ 0 < inner
            /\ inner < outer
            /\ a = ToInt32(fnIn.start)
            /\ m = fnIn.m

\* the zone of a star of one solar luminosity: 0.953 to 1.373 AU
C7_SolarZone ==
    /\ Applied("calculateHabitableZone")
    /\ fnIn.luminosity = 1000
    /\ FnRet = [innerBoundary |-> 953, outerBoundary |-> 1373]

StarClassRanges(type) ==
    CASE type = "M" -> [age |-> << 1000, 5000000 >>, size |-> << 100, 700 >>,
                        mass |-> << 80, 450 >>]
      [] type = "K" -> [age |-> << 1000, 30000 >>, size |-> << 700, 960 >>,
                        mass |-> << 450, 800 >>]
      [] type = "G" -> [age |-> << 1000, 10000 >>, size |-> << 960, 1150 >>,
                        mass |-> << 800, 1040 >>]
      [] type = "F" -> [age |-> << 1000, 4000 >>, size |-> << 1150, 1400 >>,
                        mass |-> << 1040, 1400 >>]
      [] type = "A" -> [age |-> << 100, 3000 >>, size |-> << 1400, 1800 >>,
                        mass |-> << 1400, 2100 >>]
      [] type = "B" -> [age |-> << 10, 500 >>, size |-> << 1800, 6600 >>,
                        mass |-> << 2100, 16000 >>]
      [] type = "O" -> [age |-> << 1, 100 >>, size |-> << 6600, 20000 >>,
                        mass |-> << 16000, 90000 >>]

Within(x, range) == range[1] <= x /\ x <= range[2]

\* C8: every star returned by generateParentStar has a class among M, K, G,
\* F, A, B, O and its age, size and mass lie in the ranges of that class
\* (M: age [1,5000], size [0.1,0.7], mass [0.08,0.45]; ...; O: age
\* [0.001,0.1], size [6.6,20], mass [16,90]).
C8_StarRanges ==
    Applied("generateParentStar") =>
        /\ FnRet.type \in {"M", "K", "G", "F", "A", "B", "O"}
        /\ Within(FnRet.age, StarClassRanges(FnRet.type).age)
        /\ Within(FnRet.size, StarClassRanges(FnRet.type).size)
        /\ Within(FnRet.mass, StarClassRanges(FnRet.type).mass)

C8_ClassOStar ==
    /\ Applied("generateParentStar")
    /\ FnRet.type = "O"
    /\ FnRet.size >= 6600
    /\ FnRet.mass >= 16000

\* size times the class multiplier, in thousandths
ClassLuminosity(type, size) ==
    CASE type = "M" -> (size * 8) \div 100
      [] type = "K" -> (size * 6) \div 10
      [] type = "G" -> size
      [] type = "F" -> (size * 15) \div 10
      [] type = "A" -> size * 5
      [] type = "B" -> size * 25
      [] type = "O" -> size * 50

\* the closure state k draws after the state x
RECURSIVE Drawn(_, _)
Drawn(x, k) == IF k = 0 THEN x ELSE Drawn(Add32(x, Golden), k - 1)

\* the star of the value returned by the applied function
ReturnedStar ==
    IF fnIn.fn = "generateOrbit" THEN FnRet.parentStar ELSE FnRet

\* C9: the luminosity stored in a star returned by generateOrbit or
\* generateParentStar is size times the class multiplier (M 0.08, K 0.6, G 1,
\* F 1.5, A 5, B 25, O 50): generateStarLuminosity(star.type, star.size)
\* reproduces it, and computing it consumes no random draw (generateParentStar
\* draws four times: class, age, size, mass).
C9_LuminosityFromSize ==
    (Applied("generateParentStar") \/ Applied("generateOrbit")) =>
        /\ ReturnedStar.luminosity
               = ClassLuminosity(ReturnedStar.type, ReturnedStar.size)
        /\ generateStarLuminosity(ReturnedStar.type, ReturnedStar.size)
               = ReturnedStar.luminosity
        /\ Applied("generateParentStar") => a = Drawn(ToInt32(fnIn.start), 4)

C9_ClassBStar ==
    /\ Applied("generateOrbit")
    /\ FnRet.parentStar.type = "B"
    /\ FnRet.parentStar.luminosity = FnRet.parentStar.size * 25

\* C10: for every star and planet count N in 3..18 the radii
\* getRandomOrbitRadius(star, i, N), i = 0..N-1, are strictly increasing in i
\* and strictly positive.
C10_RadiiIncreasing ==
    fnIn.fn = "getRandomOrbitRadius" =>
        \A j \in 1..Len(fnOut) :
            /\ fnOut[j] > 0
            /\ j > 1 => fnOut[j - 1] < fnOut[j]

C10_AllEighteenSlots ==
    /\ fnIn.fn = "getRandomOrbitRadius"
    /\ fnIn.n = 18
    /\ Len(fnOut) = 18
    /\ fnOut[1] < fnOut[18]

\* the snapshot fields of after equal those of before: the star's type, size,
\* mass and luminosity, and per planet, in the same order, type, orbitRadius,
\* axialTilt, moons, isTidallyLocked and size (the planet's radius property)
SameSnapshot(before, after) ==
    /\ \A f \in {"type", "size", "mass", "luminosity"} :
           Field(Field(after, "parentStar"), f)
               = Field(Field(before, "parentStar"), f)
    /\ IsKind(Field(after, "solarSystem"), "arr")
    /\ Len(Field(after, "solarSystem").arr)
           = Len(Field(before, "solarSystem").arr)
    /\ \A j \in 1..Len(Field(before, "solarSystem").arr) :
           /\ \A f \in {"type", "orbitRadius", "axialTilt", "moons",
                        "isTidallyLocked"} :
                  Field(Field(after, "solarSystem").arr[j], f)
                      = Field(Field(before, "solarSystem").arr[j], f)
           /\ Field(Field(after, "solarSystem").arr[j], "size")
                  = Field(Field(before, "solarSystem").arr[j], "radius")

\* the text the export handler writes for universeData, << >> if it throws
ExportedText(u) ==
    IF filterVitalDataForExport(u).ok
    THEN ExportText(filterVitalDataForExport(u).v)
    ELSE << >>

\* C11: importing the text that the export handler produces for the current
\* system (filterVitalDataForExport, JSON.stringify, base64) installs a
\* universeData with the same value in every field of the snapshot shape and
\* the same planets in the same order, and reports success.
C11_ExportImportRoundTrip ==
    [][(ImportSystemClick /\ filterVitalDataForExport(universeData).ok
           /\ base64Input = ExportedText(universeData))
          => (alertMsg' = "imported" /\ SameSnapshot(universeData, universeData'))]_vars

\* a generated system was exported and imported: the installed snapshot has
\* its planets, with the sizes generateOrbit gave them
C11_GeneratedSystemImported ==
    /\ alertMsg = "imported"
    /\ base64Input = base64Output
    /\ orbitData # NoData
    /\ IsKind(Field(universeData, "solarSystem"), "arr")
    /\ Len(Field(universeData, "solarSystem").arr) = Len(orbitData.solarSystem)
    /\ \A j \in 1..Len(orbitData.solarSystem) :
           Field(Field(universeData, "solarSystem").arr[j], "size")
               = Num(orbitData.solarSystem[j].size)

\* seed + k * 0x9e3779b9 modulo 2^32, by halves
WrappedState(seed, k) ==
    << ((seed \div H16) + k * 40503 + ((seed % H16) + k * 31161) \div H16) % H16,
       ((seed % H16) + k * 31161) % H16 >>

IsWord(w) == w[1] \in 0..(H16 - 1) /\ w[2] \in 0..(H16 - 1)

\* C12: after set_random_seed(v) the k-th value of random() depends on v and
\* k only, whatever the stream was before; the state stays a 32-bit integer,
\* v + k * 0x9e3779b9 modulo 2^32; every value t / 2^32 is in [0, 1).
C12_StreamOfSeed ==
    (fnIn.fn = "random" /\ calledWith # NotCalled) =>
        /\ IsWord(a)
        /\ a = WrappedState(fnIn.seed, Len(fnOut))
        /\ \A k \in 1..Len(fnOut) :
               /\ IsWord(fnOut[k])
               /\ fnOut[k] = SplitmixReturn(WrappedState(fnIn.seed, k)).t

\* all draws made after a reseed whose state passes 2^32
C12_DrawsAcrossWrap ==
    /\ fnIn.fn = "random"
    /\ fnIn.seed = 2147483647
    /\ fnIn.start = 12345
    /\ Len(fnOut) = MaxDraws
    /\ a[1] < 32767

HasKind(v, k, kind) == IsKind(Field(v, k), kind)

\* a planet record of the snapshot shape
ValidPlanet(p) ==
    /\ IsKind(p, "obj")
    /\ HasKind(p, "type", "str")
    /\ \A f \in {"orbitRadius", "size", "axialTilt", "moons"} :
           HasKind(p, f, "num")
    /\ HasKind(p, "isTidallyLocked", "bool")

\* a fully valid system: a parentStar with type, size, mass and luminosity
\* and a solarSystem array of planet records
ValidSystem(u) ==
    /\ IsKind(u, "obj")
    /\ HasKind(u, "parentStar", "obj")
    /\ HasKind(Field(u, "parentStar"), "type", "str")
    /\ \A f \in {"size", "mass", "luminosity"} :
           HasKind(Field(u, "parentStar"), f, "num")
    /\ HasKind(u, "solarSystem", "arr")
    /\ \A j \in 1..Len(Field(u, "solarSystem").arr) :
           ValidPlanet(Field(u, "solarSystem").arr[j])

\* C13: after an import of any text, either universeData is a fully valid
\* system, or the import alerted a failure and universeData is unchanged; a
\* text that decodes to well-formed JSON of the wrong shape is not installed.
C13_ValidOrRejected ==
    [][ImportSystemClick
          => \/ ValidSystem(universeData')
             \/ (alertMsg' = "failed" /\ universeData' = universeData)]_vars

\* the bounds of getPlanetSize, in thousandths of an Earth radius
SizeRange(type) ==
    CASE type = "Lava Planet"  -> [min |-> 300, max |-> 1000]
      [] type = "Terrestrial"  -> [min |-> 500, max |-> 1500]
      [] type = "Ocean World"  -> [min |-> 800, max |-> 2000]
      [] type = "Gas Giant"    -> [min |-> 6000, max |-> 15000]
      [] type = "Ice Giant"    -> [min |-> 5000, max |-> 14000]
      [] type = "Dwarf Planet" -> [min |-> 100, max |-> 300]

\* the bounds of getPlanetMoons
MoonRange(type) ==
    CASE type = "Terrestrial"  -> [min |-> 0, max |-> 3]
      [] type = "Ocean World"  -> [min |-> 0, max |-> 2]
      [] type = "Gas Giant"    -> [min |-> 1, max |-> 80]
      [] type = "Ice Giant"    -> [min |-> 1, max |-> 50]
      [] type = "Lava Planet"  -> [min |-> 0, max |-> 2]
      [] type = "Dwarf Planet" -> [min |-> 0, max |-> 5]

TypesOf(system) == {system[j].type : j \in 1..Len(system)}

\* C14: every planet of the system generateOrbit returns has a type among
\* the six, a size inside the size range of its type and an integer number
\* of moons inside the inclusive moon range of its type.
C14_SizeAndMoonsInRange ==
    Applied("generateOrbit") =>
        \A j \in 1..Len(FnRet.solarSystem) :
            LET planet == FnRet.solarSystem[j]
            IN  /\ planet.type \in PlanetTypes
                /\ planet.size >= SizeRange(planet.type).min
                /\ planet.size <= SizeRange(planet.type).max
                /\ planet.radius = planet.size
                /\ planet.moons \in Int
                /\ planet.moons >= MoonRange(planet.type).min
                /\ planet.moons <= MoonRange(planet.type).max

\* a system with a Gas Giant of more than 50 moons, an Ice Giant and a
\* planet that has no moon
C14_GiantWithManyMoons ==
    /\ Applied("generateOrbit")
    /\ \E j \in 1..Len(FnRet.solarSystem) :
           /\ FnRet.solarSystem[j].type = "Gas Giant"
           /\ FnRet.solarSystem[j].moons > 50
    /\ "Ice Giant" \in TypesOf(FnRet.solarSystem)
    /\ \E j \in 1..Len(FnRet.solarSystem) : FnRet.solarSystem[j].moons = 0

\* the tilt range the specification gives each type, in degrees
OwnTiltRange(type) ==
    CASE type = "Terrestrial"  -> [min |-> 0, max |-> 25]
      [] type = "Ocean World"  -> [min |-> 10, max |-> 30]
      [] type = "Lava Planet"  -> [min |-> 0, max |-> 40]
      [] type = "Gas Giant"    -> [min |-> 15, max |-> 90]
      [] type = "Ice Giant"    -> [min |-> 10, max |-> 90]
      [] type = "Dwarf Planet" -> [min |-> 0, max |-> 30]

\* C15: the axial tilt of every planet of a generated system lies in the
\* tilt range of the planet's own type (Ocean World 10..30 degrees, Lava
\* Planet 0..40, Dwarf Planet 0..30, ...), the Terrestrial range being used
\* only for a type that is none of the six.
C15_TiltInOwnRange ==
    Applied("generateOrbit") =>
        \A j \in 1..Len(FnRet.solarSystem) :
            LET planet == FnRet.solarSystem[j]
            IN  /\ planet.axialTilt >= OwnTiltRange(planet.type).min * Milli
                /\ planet.axialTilt <= OwnTiltRange(planet.type).max * Milli

\* the candidate atmospheres of a type, for a planet in or outside the zone
Candidates(type, inZone) ==
    CASE type = "Terrestrial" ->
            IF inZone
            THEN {"carbon_dioxide_type_I", "carbon_dioxide_type_II",
                  "nitrogen_type_I", "nitrogen_type_II", "nitrogen_type_III"}
            ELSE {"carbon_dioxide_type_I", "carbon_dioxide_type_II"}
      [] type = "Ocean World" ->
            {"carbon_type_I", "ammonia_type_I", "nitrogen_type_I",
             "nitrogen_type_II", "nitrogen_type_III"}
      [] type = "Gas Giant" ->
            {"hydrogen_helium_type_I", "hydrogen_helium_type_II",
             "hydrogen_helium_type_III", "carbon_type_I"}
      [] type = "Ice Giant" -> {"ice_type_I", "ice_type_II", "ammonia_type_I"}
      [] type = "Lava Planet" ->
            {"carbon_dioxide_type_I", "carbon_dioxide_type_II"}
      [] type = "Dwarf Planet" ->
            {"trace", "carbon_dioxide_type_I", "carbon_dioxide_type_II"}
      [] OTHER -> {"unknown"}

\* C16: getPlanetAtmosphere returns a member of the candidate list of the
\* type (for Terrestrial, the list of the side of the zone the orbit is
\* on), so never an undefined value for one of the six types; the planets
\* of a generated system carry such an atmosphere too.
C16_AtmosphereOfType ==
    /\ Applied("getPlanetAtmosphere") =>
           FnRet \in Candidates(ProbedTypes[fnIn.n],
                                InZone(fnIn.orbitRadius,
                                       ZoneOf(fnIn.luminosity)))
    /\ Applied("generateOrbit") =>
           \A j \in 1..Len(FnRet.solarSystem) :
               FnRet.solarSystem[j].atmosphere
                   \in Candidates(FnRet.solarSystem[j].type,
                                  InZone(FnRet.solarSystem[j].orbitRadius,
                                         FnRet.habitableZone))

\* a Terrestrial planet outside the zone was given a carbon dioxide
\* atmosphere by the last index of its two-element list
C16_TerrestrialOutsideZone ==
    /\ Applied("getPlanetAtmosphere")
    /\ ProbedTypes[fnIn.n] = "Terrestrial"
    /\ ~InZone(fnIn.orbitRadius, ZoneOf(fnIn.luminosity))
    /\ fnIn.m = MathDen - 1
    /\ FnRet = "carbon_dioxide_type_II"

Classes == {"M", "K", "G", "F", "A", "B", "O"}

SizeBand(class) == StarClassRanges(class).size
MassBand(class) == StarClassRanges(class).mass
LuminosityBand(class) ==
    << ClassLuminosity(class, SizeBand(class)[1]),
       ClassLuminosity(class, SizeBand(class)[2]) >>

\* a band holds its lower endpoint and not its upper one
InBand(x, band) == band[1] <= x /\ x < band[2]
DisjointBands(b1, b2) == b1[2] <= b2[1] \/ b2[2] <= b1[1]

\* the draw of getRandomValue nearest to max: random() = (2^32 - 1) / 2^32
LargestValue(band) ==
    ScaleValue([a |-> << 0, 0 >>, t |-> << H16 - 1, H16 - 1 >>],
               band[1], band[2]).v

\* C17: the bands of size, of mass and of luminosity of two different
\* classes do not overlap once the upper endpoint, which getRandomValue
\* never returns, is left out; so the size, the mass and the luminosity of
\* a generated star each lie in the band of the star's class and of no
\* other class.
C17_ClassFromAnyValue ==
    /\ \A c1 \in Classes : \A c2 \in Classes \ {c1} :
           /\ DisjointBands(SizeBand(c1), SizeBand(c2))
           /\ DisjointBands(MassBand(c1), MassBand(c2))
           /\ DisjointBands(LuminosityBand(c1), LuminosityBand(c2))
    /\ \A c \in Classes :
           /\ LargestValue(SizeBand(c)) < SizeBand(c)[2]
           /\ LargestValue(MassBand(c)) < MassBand(c)[2]
    /\ (Applied("generateParentStar") \/ Applied("generateOrbit")) =>
           /\ {c \in Classes : InBand(ReturnedStar.size, SizeBand(c))}
                  = {ReturnedStar.type}
           /\ {c \in Classes : InBand(ReturnedStar.mass, MassBand(c))}
                  = {ReturnedStar.type}
           /\ {c \in Classes :
                   InBand(ReturnedStar.luminosity, LuminosityBand(c))}
                  = {ReturnedStar.type}

\* a star of class A, whose size and mass bands touch those of F and B
C17_ClassAStar ==
    /\ Applied("generateParentStar")
    /\ FnRet.type = "A"
    /\ InBand(FnRet.size, SizeBand("A"))
    /\ InBand(FnRet.mass, MassBand("A"))

\* the habitability pass was applied to the generated slots
PassApplied == fnIn.fn = "generateSolarSystem" /\ Len(fnOut) = 2

SlotInZone(slots) ==
    \E j \in 1..Len(slots.planets) :
        InZone(slots.planets[j].orbitRadius, slots.parentStar.habitableZone)

\* C18: when a generated slot lies in the zone the habitability pass
\* changes no planet and draws nothing from the seeded stream; when none
\* does, it takes one seeded draw and the planets after it are the planets
\* before it with the orbitRadius of exactly one of them set to the
\* midpoint of the zone, every other field of every planet being kept.
C18_PassMovesOnePlanet ==
    PassApplied =>
        IF SlotInZone(fnOut[1])
        THEN fnOut[1].habitableZonePlanetAdded
             /\ fnOut[2] = fnOut[1].planets /\ a = fnOut[1].a
        ELSE /\ ~fnOut[1].habitableZonePlanetAdded
             /\ a = Drawn(fnOut[1].a, 1)
             /\ fnOut[2] # fnOut[1].planets
             /\ \E j \in 1..Len(fnOut[1].planets) :
                    fnOut[2] =
                        [fnOut[1].planets EXCEPT ![j].orbitRadius =
                            Midpoint(fnOut[1].parentStar.habitableZone)]

\* the pass moved a planet that is neither the first nor the last slot
C18_InnerSlotMoved ==
    /\ PassApplied
    /\ ~SlotInZone(fnOut[1])
    /\ \E j \in 2..(Len(fnOut[2]) - 1) :
           /\ fnOut[2][j].orbitRadius # fnOut[1].planets[j].orbitRadius
           /\ fnOut[2][j].type = fnOut[1].planets[j].type

\* the slots of generateSolarSystem were generated
SlotsGenerated == fnIn.fn = "generateSolarSystem" /\ fnOut # << >>

\* C19: the star generateSolarSystem is given carries the zone of its
\* luminosity, which is the zone determinePlanetType and
\* getRandomOrbitRadius recompute; every slot is placed by
\* getRandomOrbitRadius and is given a habitable type exactly when
\* isInHabitableZone holds of its radius; and the habitableZone of the
\* result of generateOrbit is that same zone.
C19_OneZone ==
    /\ Applied("generateOrbit") =>
           /\ FnRet.habitableZone = FnRet.parentStar.habitableZone
           /\ FnRet.habitableZone
                  = calculateHabitableZone(FnRet.parentStar.luminosity)
    /\ SlotsGenerated =>
           /\ fnOut[1].parentStar.habitableZone
                  = calculateHabitableZone(fnOut[1].parentStar.luminosity)
           /\ \A j \in 1..Len(fnOut[1].planets) :
                  /\ fnOut[1].planets[j].orbitRadius
                         = SlotRadius(fnOut[1].parentStar, j - 1,
                                      Len(fnOut[1].planets))
                  /\ fnOut[1].planets[j].type \in HabitableTypes
                         <=> isInHabitableZone(
                                 fnOut[1].planets[j].orbitRadius,
                                 fnOut[1].parentStar.habitableZone)
                  /\ fnOut[1].planets[j].type = "Lava Planet"
                         <=> fnOut[1].planets[j].orbitRadius
                                 < fnOut[1].parentStar.habitableZone
                                       .innerBoundary

\* slots on both sides of the zone of a star that is not of class G, one
\* of them inside the zone
C19_SlotsAroundZone ==
    /\ SlotsGenerated
    /\ fnOut[1].parentStar.type # "G"
    /\ fnOut[1].habitableZonePlanetAdded
    /\ \E j \in 1..Len(fnOut[1].planets) :
           fnOut[1].planets[j].type = "Lava Planet"
    /\ \E j \in 1..Len(fnOut[1].planets) :
           fnOut[1].planets[j].type = "Gas Giant"

\* the seeded draws of one generateOrbit call: type, age, size and mass of
\* the star, the number of planets, size and moons of every planet, and
\* the pick of the habitability pass when it acts
DrawsOf(ret) ==
    5 + 2 * Len(ret.solarSystem) + (IF PassActed(ret) THEN 1 ELSE 0)

SameStar(s1, s2) ==
    /\ s1.type = s2.type /\ s1.age = s2.age /\ s1.size = s2.size
    /\ s1.mass = s2.mass /\ s1.luminosity = s2.luminosity

\* C20: a call generateOrbit(seed) with a seed, 0 included, draws its star
\* from set_random_seed(seed) and leaves the stream at the state its draws
\* lead to from there, whatever the stream state was before the call; a
\* call generateOrbit() draws its star from the stream state the previous
\* call left and advances that state by its draws.
C20_SeedReplacesStream ==
    [][/\ \A seed \in Seeds :
              (calledWith' = seed /\ GenerateOrbitSeeded(seed)) =>
                  /\ SameStar(orbitData'.parentStar,
                              generateParentStar(set_random_seed(seed)).star)
                  /\ a' = Drawn(set_random_seed(seed), DrawsOf(orbitData'))
       /\ (unseeded' = unseeded + 1 /\ GenerateOrbitUnseeded) =>
              /\ SameStar(orbitData'.parentStar, generateParentStar(a).star)
              /\ a' = Drawn(a, DrawsOf(orbitData'))]_vars

\* generateOrbit(0) has returned: the stream, started elsewhere, is where
\* the draws of the call lead from the state of the seed 0
C20_SeededWithZero ==
    /\ calledWith = 0
    /\ orbitData # NoData
    /\ a = Drawn(set_random_seed(0), DrawsOf(orbitData))
    /\ a # Drawn(ToInt32(1000003), DrawsOf(orbitData))

\* maxOrbit = max(50, outerBoundary + 20) of a star of the luminosity
MaxOrbitOf(luminosity) == Max(50000, ZoneOf(luminosity).outerBoundary + 20000)

\* 0.2 * (maxOrbit / 0.2)^(i / n), through the logarithm
ClosedFormRadius(maxOrbit, i, n) ==
    MathExp(MathLog(200) + ((MathLog(maxOrbit) - MathLog(200)) \div n) * i)

\* the radius of the slot getRandomOrbitRadius was applied to last
LastSlot == fnOut[Len(fnOut)]

C23_DocumentedDefaults ==
    /\ (Applied("generateStarAge") /\ ProbedClasses[fnIn.n] = "X") =>
           FnRet = 0 /\ a = ToInt32(fnIn.start)
    /\ (Applied("generateStarSizeAndMass") /\ ProbedClasses[fnIn.n] = "X") =>
           FnRet.size = 0 /\ FnRet.mass = 0 /\ a = ToInt32(fnIn.start)
    /\ (Applied("generateStarLuminosity") /\ ProbedClasses[fnIn.n] = "X") =>
           FnRet = 0
    /\ (Applied("getAxialTilt")
          /\ ProbedTiltTypes[fnIn.n]
                 \notin {"Dwarf", "Terrestrial", "Ocean", "Lava", "Gas Giant",
                         "Ice Giant"}) =>
           FnRet >= 0 /\ FnRet <= 25 * Milli
    /\ (Applied("getPlanetAtmosphere")
          /\ ProbedTypes[fnIn.n] \notin PlanetTypes) =>
           FnRet = "unknown"

\* the draws random() = 0 and random() = (2^32 - 1) / 2^32; the mixing
\* steps of splitmix32 are bijections of the 32-bit words, so some stream
\* state returns each
LeastDraw == [a |-> << 0, 0 >>, t |-> << 0, 0 >>]
GreatestDraw == [a |-> << 0, 0 >>, t |-> << H16 - 1, H16 - 1 >>]

\* the bound 2^32 + over of a wide probe, as q * 2^32 + w
WideMax(over) == [q |-> 1, w |-> << 0, over >>]

\* getRandomInt and getRandomValue were applied to bounds below 2^31
NarrowInt == Applied("getRandomInt") /\ fnIn.n = 0
WideInt == Applied("getRandomInt") /\ fnIn.n = 1

OneDraw == a = Drawn(ToInt32(fnIn.start), 1)

InsideBounds ==
    /\ NarrowInt =>
           /\ FnRet \in fnIn.luminosity .. fnIn.orbitRadius
           /\ OneDraw
    /\ WideInt => FnRet.q = 0 \/ FnRet = WideMax(0) \/ FnRet = WideMax(1)
    /\ WideInt => OneDraw
    /\ Applied("getRandomValue") =>
           /\ fnIn.luminosity <= FnRet /\ FnRet < fnIn.orbitRadius
           /\ ScaleValue(GreatestDraw, fnIn.luminosity, fnIn.orbitRadius).v
                  < fnIn.orbitRadius
           /\ OneDraw

SeededPlanet(ret, p) ==
    IF InZone(p.orbitRadius, ret.habitableZone) /\ ~PassActed(ret)
    THEN << p.orbitRadius >>
    ELSE << p.orbitRadius, p.type, p.size, p.radius, p.moons >>

SeededPart(ret) ==
    [parentStar |-> ret.parentStar,
     habitableZone |-> ret.habitableZone,
     relocated |-> PassActed(ret),
     planets |-> [j \in 1..Len(ret.solarSystem) |->
                     SeededPlanet(ret, ret.solarSystem[j])]]

\* the other run of generateOrbit with the seed of the probe, Math.random
\* at m1
OtherRun(m1) == generateOrbit(fnIn.seed, ToInt32(fnIn.start), m1)

\* C25: two runs of generateOrbit(s) agree on the star, the zone, the
\* number of planets, the orbit radii, the relocated planet and on type,
\* size and moons of every planet generated outside the zone, whatever
\* Math.random returns; every planet takes two seeded draws; the runs
\* differ at most in the type, size and moons of planets generated in the
\* zone and in atmosphere and axialTilt.
C25_SeededPartAgrees ==
    Applied("generateOrbit") =>
        /\ \A m1 \in MathValues :
               /\ SeededPart(OtherRun(m1).ret) = SeededPart(FnRet)
               /\ OtherRun(m1).a = a
        /\ a = Drawn(set_random_seed(fnIn.seed), DrawsOf(FnRet))

\* two runs with one seed returned an Ocean World and a Terrestrial planet
\* of different sizes in the same slot of the zone
C25_RunsDifferInZone ==
    /\ Applied("generateOrbit")
    /\ \E m1 \in MathValues : \E j \in 1..Len(FnRet.solarSystem) :
           /\ OtherRun(m1).ret.solarSystem[j].type # FnRet.solarSystem[j].type
           /\ OtherRun(m1).ret.solarSystem[j].size # FnRet.solarSystem[j].size
           /\ OtherRun(m1).ret.solarSystem[j].orbitRadius
                  = FnRet.solarSystem[j].orbitRadius

\* the positions of the planets of the habitable types in a system
HabitableAt(system) ==
    {j \in 1..Len(system) : system[j].type \in HabitableTypes}

\* C26: in every system generateOrbit returns, every Terrestrial or Ocean
\* World planet has its orbitRadius inside [innerBoundary, outerBoundary]:
\* the types are given only to slots of the zone, and the pass moves a
\* planet only in systems without a planet of these types.
C26_HabitableTypesInZone ==
    Applied("generateOrbit") =>
        \A j \in HabitableAt(FnRet.solarSystem) :
            /\ InZone(FnRet.solarSystem[j].orbitRadius, FnRet.habitableZone)
            /\ ~PassActed(FnRet)
            /\ \E i \in 0..(Len(FnRet.solarSystem) - 1) :
                   SlotRadius(FnRet.parentStar, i, Len(FnRet.solarSystem))
                       = FnRet.solarSystem[j].orbitRadius

\* a system with a Terrestrial or Ocean World planet between a Lava Planet
\* and a Gas Giant
C26_HabitableBetweenOthers ==
    /\ Applied("generateOrbit")
    /\ \E j \in HabitableAt(FnRet.solarSystem) :
           /\ j > 1 /\ j < Len(FnRet.solarSystem)
           /\ FnRet.solarSystem[j - 1].type = "Lava Planet"
           /\ FnRet.solarSystem[j + 1].type = "Gas Giant"

InZoneAt(ret) ==
    {j \in 1..Len(ret.solarSystem) :
        InZone(ret.solarSystem[j].orbitRadius, ret.habitableZone)}

\* C27: when no generated slot lies in the zone, the returned system has
\* exactly one planet inside the zone, at the midpoint, of a type that is
\* neither Terrestrial nor Ocean World, and no planet of these types at
\* all; the orbit radii stay pairwise distinct, the sorted order strict.
C27_OneRelocatedPlanet ==
    (Applied("generateOrbit") /\ PassActed(FnRet)) =>
        /\ Cardinality(InZoneAt(FnRet)) = 1
        /\ \A j \in InZoneAt(FnRet) :
               /\ FnRet.solarSystem[j].orbitRadius
                      = Midpoint(FnRet.habitableZone)
               /\ FnRet.solarSystem[j].type
                      \in {"Lava Planet", "Gas Giant", "Ice Giant",
                           "Dwarf Planet"}
        /\ HabitableAt(FnRet.solarSystem) = {}
        /\ \A j \in 1..(Len(FnRet.solarSystem) - 1) :
               FnRet.solarSystem[j].orbitRadius
                   < FnRet.solarSystem[j + 1].orbitRadius
        /\ Cardinality(Radii(FnRet.solarSystem)) = Len(FnRet.solarSystem)

\* the pass acted and the planet it left in the zone is a giant or a dwarf
C27_GiantInZone ==
    /\ Applied("generateOrbit")
    /\ PassActed(FnRet)
    /\ \E j \in InZoneAt(FnRet) :
           FnRet.solarSystem[j].type \in {"Gas Giant", "Ice Giant",
                                          "Dwarf Planet"}

\* the persisted fields of a planet in a snapshot
SnapshotFields ==
    {"type", "orbitRadius", "size", "axialTilt", "moons", "isTidallyLocked"}

\* universeData is what the import handler installs for the text, with the
\* properties updateScene has added to its planets since
Installed(text, u) ==
    /\ ImportValue(text).ok
    /\ IsKind(Field(ImportValue(text).v, "solarSystem"), "arr")
    /\ IsKind(Field(u, "solarSystem"), "arr")
    /\ Field(u, "parentStar") = Field(ImportValue(text).v, "parentStar")
    /\ Len(Field(u, "solarSystem").arr)
           = Len(Field(ImportValue(text).v, "solarSystem").arr)
    /\ \A j \in 1..Len(Field(u, "solarSystem").arr) :
           \A f \in SnapshotFields :
               Field(Field(u, "solarSystem").arr[j], f)
                   = Field(Field(ImportValue(text).v, "solarSystem").arr[j], f)

\* the snapshot written by the export handler, of a star with a luminosity
\* and at least one planet, was imported and every call of updateScene has
\* returned
ExportImported ==
    /\ alertMsg = "imported"
    /\ pending = << >>
    /\ base64Output # << >>
    /\ base64Input = base64Output
    /\ Installed(base64Input, universeData)
    /\ Field(universeData, "solarSystem").arr # << >>
    /\ IsKind(Field(Field(universeData, "parentStar"), "luminosity"), "num")

\* the value populateUniverseData stores for a zone
ZoneValue(habitableZone) ==
    Obj(<< Member("innerBoundary", Num(habitableZone.innerBoundary)),
           Member("outerBoundary", Num(habitableZone.outerBoundary)) >>)

\* C22: after a snapshot produced by the export is imported and updateScene
\* has run, the star's habitableZone is defined and is the zone of the
\* persisted luminosity, and every planet has a defined radius, atmosphere,
\* geologicalData and composition.
C22_RecomputedAfterImport ==
    ExportImported =>
        /\ IsKind(Field(Field(universeData, "parentStar"), "habitableZone"),
                  "obj")
        /\ Field(Field(universeData, "parentStar"), "habitableZone")
               = ZoneValue(calculateHabitableZone(
                     Field(Field(universeData, "parentStar"),
                           "luminosity").num))
        /\ \A j \in 1..Len(Field(universeData, "solarSystem").arr) :
               \A f \in {"radius", "atmosphere", "geologicalData",
                         "composition"} :
                   ~IsKind(Field(Field(universeData, "solarSystem").arr[j], f),
                           "undef")

\* C28: exporting a system, importing the text and exporting again gives
\* the text of the first export: export(import(export(u))) = export(u).
C28_ReexportSameText ==
    [][(ImportSystemClick /\ filterVitalDataForExport(universeData).ok
           /\ base64Input = ExportedText(universeData))
          => ExportedText(universeData') = base64Input]_vars

PlanetMeshes(i) ==
    {c \in 1..Len(sceneChildren) :
        sceneChildren[c].name = "planet" /\ sceneChildren[c].index = i}

\* C30: once every call of updateScene has returned, the scene has exactly
\* one mesh planet<i> for each planet i of universeData.solarSystem, made
\* of that planet, no planet mesh beyond them, and celestialObjects holds
\* the star and one mesh per planet; also when generate or import was
\* triggered while an earlier updateScene waited in generatePlanets.
C30_OneMeshPerPlanet ==
    (pending = << >> /\ IsSystem(universeData) /\ celestialObjects # << >>) =>
        /\ \A i \in 0..(SystemLength(universeData) - 1) :
               /\ Cardinality(PlanetMeshes(i)) = 1
               /\ \A c \in PlanetMeshes(i) :
                      sceneChildren[c].data
                          = Field(PlanetAt(universeData, i), "orbitRadius")
        /\ \A c \in 1..Len(sceneChildren) :
               sceneChildren[c].name = "planet"
                   => sceneChildren[c].index < SystemLength(universeData)
        /\ Len(celestialObjects) = SystemLength(universeData) + 1
        /\ \A k \in 1..Len(celestialObjects) : celestialObjects[k] # Hole

============================================================================
